---- MODULE Spec2Model ----
(***************************************************************************)
(* Model of the table registry, the A1 address converter, the header      *)
(* lookup and the row reconciliation of src/code.gas.js, together with    *)
(* the part of the Sheets backend these functions talk to.  Functions     *)
(* that src/code.gas.js does not contain (getTableHeaderInfo,              *)
(* updateResultSummaryTable, createEstimateFromTemplates, richTextToCell)  *)
(* are modelled from the listing of the script in src/README.md.           *)
(*                                                                         *)
(* Text.  A string value is a sequence of chunks; the chunk " " is white  *)
(* space, every other chunk is an indivisible piece of text.  <<>> is the *)
(* empty string.  The Japanese table and header names of the source are   *)
(* written as ASCII glosses.                                               *)
(*                                                                         *)
(* Optional numbers.  A field of a GridRange that may be undefined is a   *)
(* set: {} is undefined and {n} is the number n.                           *)
(***************************************************************************)
EXTENDS Integers, Sequences, FiniteSets, TLC

VARIABLES
    target,     \* the copied intermediate spreadsheet (spreadsheetUrl)
    active,     \* the active spreadsheet (SpreadsheetApp.getActiveSpreadsheet())
    _estimateRequiredMembersCache,  \* {} = undefined, {rows} = loaded
    _estimateTemplateCache,         \* {} = undefined, {links} = loaded
    _poMembersCache,                \* {} = undefined, {members} = loaded
    _estimateIssueListCache,        \* {} = undefined, {rows} = loaded
    _estimateDeadlineCache,         \* {} = undefined, {rows} = loaded
    last,       \* what the last call did: operation, outcome, state before it
    failures,   \* number of backend calls rejected so far
    adds,       \* number of rows addEstimateHistoryTopRow has added
    a1in,       \* address converter: the GridRange and sheet title passed in
    a1out,      \* address converter: <<>> before the call, <<result>> after
    arg,        \* function examined on its own: the name and the inputs
    ret,        \* function examined on its own: <<>> before, <<result>> after
    firstIndex  \* {} before the first getTablesIndex() call, then {its result}

\* the caches of the loaders other than getEstimateRequiredMembers
otherCaches ==
    <<_estimateTemplateCache, _poMembersCache, _estimateIssueListCache,
      _estimateDeadlineCache>>

vars == <<target, active, _estimateRequiredMembersCache, otherCaches, last,
          failures, adds, a1in, a1out, arg, ret, firstIndex>>

\* `let _...Cache = undefined` of the four other loaders
OtherCachesUnset ==
    /\ _estimateTemplateCache = {}
    /\ _poMembersCache = {}
    /\ _estimateIssueListCache = {}
    /\ _estimateDeadlineCache = {}

----------------------------------------------------------------------------
(* Bounds of the model *)

\* Largest number of data rows the Members table declares initially.
MaxRows == 2
\* Largest number of data rows of the source table of required members.
MaxMembers == 2
\* Number of backend calls that may be rejected in one behaviour.
MaxFailures == 1
\* Number of rows addEstimateHistoryTopRow may add in one behaviour.
MaxHistoryAdds == 1
\* Largest row index of a GridRange handed to the address converter.
MaxRowIndex == 3
\* Largest column index of a GridRange handed to the address converter.
MaxColIndex == 27
\* Number of columns of a sheet of the model.
SheetCols == 5
MaxLoadRows == 2
MaxColumn == 702
MaxDeadlineRows == 2

----------------------------------------------------------------------------
(* JavaScript values *)

Undefined == {}
Def(n) == {n}
Val(x) == CHOOSE v \in x : TRUE
\* x || d on an optional number: undefined and 0 are falsy.
OrElse(x, d) == IF x = Undefined \/ x = Def(0) THEN d ELSE Val(x)

Min(a, b) == IF a < b THEN a ELSE b
Max(a, b) == IF a < b THEN b ELSE a

RECURSIVE trimStart(_)
trimStart(s) == IF s # <<>> /\ Head(s) = " " THEN trimStart(Tail(s)) ELSE s
RECURSIVE trimEnd(_)
trimEnd(s) ==
    IF s # <<>> /\ s[Len(s)] = " " THEN trimEnd(SubSeq(s, 1, Len(s) - 1)) ELSE s
\* String(v).trim()
trim(s) == trimEnd(trimStart(s))

\* Array.prototype.indexOf on a header: zero-based offset of the first cell
\* equal to name, -1 when there is none.
indexOf(header, name) ==
    IF \E i \in 1..Len(header) : header[i] = name
    THEN (CHOOSE i \in 1..Len(header) :
              header[i] = name /\ \A j \in 1..(i - 1) : header[j] # name) - 1
    ELSE -1

\* the header without the trim
headerOfUntrimmed(values) == values[1]
\* values[0].map((v) => String(v).trim())
headerOf(values) == [i \in 1..Len(values[1]) |-> trim(values[1][i])]

\* row[idx] ?? "" on a row whose trailing cells may be missing
cellOr(row, idx) == IF idx + 1 \in 1..Len(row) THEN row[idx + 1] ELSE <<>>

----------------------------------------------------------------------------
(* Address converter *)

Alphabet == <<"A", "B", "C", "D", "E", "F", "G", "H", "I", "J", "K", "L", "M",
              "N", "O", "P", "Q", "R", "S", "T", "U", "V", "W", "X", "Y", "Z">>

RECURSIVE toColA1LoopPlainBase26(_, _)
\* the loop with the digits 0..25 of plain base 26
toColA1LoopPlainBase26(n, s) ==
    IF n > 0
    THEN toColA1LoopPlainBase26(n \div 26, <<Alphabet[(n % 26) + 1]>> \o s)
    ELSE s

RECURSIVE toColA1Loop(_, _)
\* while (n > 0) { r = (n - 1) % 26; s = letter(r) + s; n = floor((n - 1) / 26) }
toColA1Loop(n, s) ==
    IF n > 0
    THEN toColA1Loop((n - 1) \div 26, <<Alphabet[((n - 1) % 26) + 1]>> \o s)
    ELSE s
\* zero-based column index -> column letters
toColA1(zero) == toColA1Loop(zero + 1, <<>>)

\* The address `${sheetTitle}!${sc}${sr}:${ec}${er}` as the record of its parts.
gridRangeToA1ErPlusOne(gr, sheetTitle) ==
    LET sr == OrElse(gr.startRowIndex, 0) + 1
    IN  [sheet |-> sheetTitle,
         sc |-> toColA1(OrElse(gr.startColumnIndex, 0)), sr |-> sr,
         ec |-> toColA1(OrElse(gr.endColumnIndex, 1) - 1),
         er |-> OrElse(gr.endRowIndex, sr - 1) + 1]
gridRangeToA1(gr, sheetTitle) ==
    LET sr == OrElse(gr.startRowIndex, 0) + 1
        er == OrElse(gr.endRowIndex, sr)
        sc == toColA1(OrElse(gr.startColumnIndex, 0))
        ec == toColA1(OrElse(gr.endColumnIndex, 1) - 1)
    IN  [sheet |-> sheetTitle, sc |-> sc, sr |-> sr, ec |-> ec, er |-> er]

----------------------------------------------------------------------------
(* The Sheets backend.  A spreadsheet is [sheets |-> <<sheet, ...>>]; a    *)
(* sheet is [properties |-> [sheetId, title], tables |-> <<table, ...>>,   *)
(* grid |-> <<row, ...>>]; a row is SheetCols cells; a cell is             *)
(* [v |-> text, uri |-> link or ""].                                        *)

BlankCell == [v |-> <<>>, uri |-> ""]
BlankRow == [c \in 1..SheetCols |-> BlankCell]
Txt(s) == [v |-> s, uri |-> ""]

sheetIndexByTitle(ss, title) ==
    CHOOSE i \in 1..Len(ss.sheets) : ss.sheets[i].properties.title = title
sheetIndexById(ss, sheetId) ==
    CHOOSE i \in 1..Len(ss.sheets) : ss.sheets[i].properties.sheetId = sheetId

RECURSIVE colNumber(_)
\* column letters -> one-based column number, as the backend reads an address
colNumber(letters) ==
    IF letters = <<>> THEN 0
    ELSE colNumber(SubSeq(letters, 1, Len(letters) - 1)) * 26
         + (CHOOSE i \in 1..26 : Alphabet[i] = letters[Len(letters)])

cellText(grid, r, c) ==
    IF r \in 1..Len(grid) /\ c \in 1..Len(grid[r]) THEN grid[r][c].v ELSE <<>>

RECURSIVE dropTrailingEmpty(_)
\* a sequence without its trailing empty elements (empty cells of a row, or
\* empty rows of a range)
dropTrailingEmpty(s) ==
    IF s # <<>> /\ s[Len(s)] = <<>>
    THEN dropTrailingEmpty(SubSeq(s, 1, Len(s) - 1))
    ELSE s

\* Sheets.Spreadsheets.Values.get(spreadsheetId, a1).values || []:
\* the cell texts of the addressed rows and columns; the backend omits
\* trailing empty cells of each row and trailing empty rows.
ValuesGet(ss, a1) ==
    LET grid == ss.sheets[sheetIndexByTitle(ss, a1.sheet)].grid
        r1 == Min(a1.sr, a1.er)
        r2 == Max(a1.sr, a1.er)
        c1 == Min(colNumber(a1.sc), colNumber(a1.ec))
        c2 == Max(colNumber(a1.sc), colNumber(a1.ec))
        rows == [i \in 1..(r2 - r1 + 1) |->
                    dropTrailingEmpty([j \in 1..(c2 - c1 + 1) |->
                        cellText(grid, r1 + i - 1, c1 + j - 1)])]
    IN  dropTrailingEmpty(rows)

\* Sheets.Spreadsheets.Values.update({values: rows}, spreadsheetId, a1,
\* {valueInputOption: "USER_ENTERED"}): the texts are entered from the top
\* left cell of the address; an empty text clears the cell.
ValuesUpdate(ss, a1, rows) ==
    LET k == sheetIndexByTitle(ss, a1.sheet)
        grid == ss.sheets[k].grid
        r1 == Min(a1.sr, a1.er)
        c1 == Min(colNumber(a1.sc), colNumber(a1.ec))
        written(r, c) == /\ r - r1 + 1 \in 1..Len(rows)
                         /\ c - c1 + 1 \in 1..Len(rows[r - r1 + 1])
        old(r, c) == IF r \in 1..Len(grid) THEN grid[r][c] ELSE BlankCell
        newGrid == [r \in 1..Max(Len(grid), r1 + Len(rows) - 1) |->
                       [c \in 1..SheetCols |->
                           IF written(r, c)
                           THEN [v |-> rows[r - r1 + 1][c - c1 + 1],
                                 uri |-> old(r, c).uri]
                           ELSE old(r, c)]]
    IN  [ss EXCEPT !.sheets[k].grid = newGrid]

shiftRange(range, n) ==
    [range EXCEPT !.startRowIndex = Def(Val(@) + n),
                  !.endRowIndex = Def(Val(@) + n)]

\* tables of a sheet after rows were inserted (n > 0) or deleted (n < 0) at
\* row index `at`: a table that starts at or below `at` moves with its rows
shiftTables(tables, at, n) ==
    [i \in 1..Len(tables) |->
        IF /\ tables[i].range.startRowIndex # Undefined
           /\ tables[i].range.endRowIndex # Undefined
           /\ Val(tables[i].range.startRowIndex) >= at
        THEN [tables[i] EXCEPT !.range = shiftRange(@, n)]
        ELSE tables[i]]

\* batchUpdate insertDimension {sheetId, ROWS, startIndex, endIndex}
InsertDimension(ss, sheetId, startIndex, endIndex) ==
    LET k == sheetIndexById(ss, sheetId)
        grid == ss.sheets[k].grid
        n == endIndex - startIndex
    IN  [ss EXCEPT
            !.sheets[k].grid =
                SubSeq(grid, 1, startIndex) \o [i \in 1..n |-> BlankRow]
                \o SubSeq(grid, startIndex + 1, Len(grid)),
            !.sheets[k].tables = shiftTables(@, startIndex, n)]

\* batchUpdate deleteDimension {sheetId, ROWS, startIndex, endIndex}
DeleteDimension(ss, sheetId, startIndex, endIndex) ==
    LET k == sheetIndexById(ss, sheetId)
        grid == ss.sheets[k].grid
    IN  [ss EXCEPT
            !.sheets[k].grid =
                SubSeq(grid, 1, startIndex) \o SubSeq(grid, endIndex + 1, Len(grid)),
            !.sheets[k].tables = shiftTables(@, endIndex, startIndex - endIndex)]

\* batchUpdate updateTable {table: {tableId, range}, fields: "range"}
UpdateTable(ss, tableId, range) ==
    [ss EXCEPT !.sheets =
        [k \in 1..Len(ss.sheets) |->
            [ss.sheets[k] EXCEPT !.tables =
                [i \in 1..Len(ss.sheets[k].tables) |->
                    IF ss.sheets[k].tables[i].tableId = tableId
                    THEN [ss.sheets[k].tables[i] EXCEPT !.range = range]
                    ELSE ss.sheets[k].tables[i]]]]]

\* batchUpdate insertRange {range, shiftDimension: "ROWS"}: blank cells are
\* inserted in the columns of the range and the cells below move down; the
\* sheet grows when cells with content would leave it
InsertRange(ss, sheetId, startRowIndex, endRowIndex, startColumnIndex, endColumnIndex) ==
    LET k == sheetIndexById(ss, sheetId)
        grid == ss.sheets[k].grid
        n == endRowIndex - startRowIndex
        inSpan(c) == c > startColumnIndex /\ c <= endColumnIndex
        pushedOut == \E r \in (Len(grid) - n + 1)..Len(grid) :
                         \E c \in 1..SheetCols :
                             inSpan(c) /\ r >= 1 /\ grid[r][c] # BlankCell
        newLen == IF pushedOut THEN Len(grid) + n ELSE Len(grid)
        old(r, c) == IF r \in 1..Len(grid) THEN grid[r][c] ELSE BlankCell
        moved(t) == /\ t.range.startRowIndex # Undefined
                    /\ t.range.endRowIndex # Undefined
                    /\ t.range.startColumnIndex # Undefined
                    /\ t.range.endColumnIndex # Undefined
                    /\ Val(t.range.startRowIndex) >= startRowIndex
                    /\ Val(t.range.startColumnIndex) >= startColumnIndex
                    /\ Val(t.range.endColumnIndex) <= endColumnIndex
    IN  [ss EXCEPT
            !.sheets[k].grid =
                [r \in 1..newLen |->
                    [c \in 1..SheetCols |->
                        IF ~inSpan(c) \/ r <= startRowIndex THEN old(r, c)
                        ELSE IF r <= endRowIndex THEN BlankCell
                        ELSE old(r - n, c)]],
            !.sheets[k].tables =
                [i \in 1..Len(@) |->
                    IF moved(@[i]) THEN [@[i] EXCEPT !.range = shiftRange(@, n)]
                    ELSE @[i]]]

\* batchUpdate updateCells of one cell with fields
\* "userEnteredValue,textFormatRuns": buildLinkCell(text, url)
UpdateCells(ss, sheetId, rowIndex, columnIndex, text, url) ==
    LET k == sheetIndexById(ss, sheetId)
        grid == ss.sheets[k].grid
    IN  IF rowIndex + 1 \in 1..Len(grid) /\ columnIndex + 1 \in 1..SheetCols
        THEN [ss EXCEPT !.sheets[k].grid[rowIndex + 1][columnIndex + 1] =
                            [v |-> text, uri |-> url]]
        ELSE ss

----------------------------------------------------------------------------
(* The script: tables it knows, results of calls *)

\* tableName: "menba" (members); headers: display name, mail address,
\* response required, response status
membersTable ==
    [tableName |-> "Members",
     headers |-> [displayName |-> <<"display name">>,
                  email |-> <<"mail address">>,
                  responseRequired |-> <<"response required">>,
                  responseStatus |-> <<"response status">>]]

estimateRequiredMembersTable ==
    [tableName |-> "EstimateRequired_Members",
     headers |-> [displayName |-> <<"display name">>,
                  email |-> <<"mail address">>,
                  responseRequired |-> <<"response required">>]]

estimateHistoryTable ==
    [tableName |-> "EstimateHistory",
     headers |-> [date |-> <<"estimate date">>,
                  mid |-> <<"mid spreadsheet">>,
                  form |-> <<"Google Form">>,
                  result |-> <<"result spreadsheet">>]]

formResponsesTable ==
    [tableName |-> "Form_Responses",
     headers |-> [timestamp |-> <<"timestamp">>,
                  email |-> <<"mail address">>,
                  premise |-> <<"E1. premise">>,
                  estimate |-> <<"E1. estimate">>]]

\* the two values of the column "response required"
Unnecessary == <<"unnecessary">>
Necessary == <<"necessary">>

\* the LET(...) formula text written to the first cell of "response status"
responseStatusFormula == <<"=LET(...)">>

\* a call that returned v, and a call that threw new Error(e)
Ok(v) == [threw |-> FALSE, error |-> "", value |-> v]
Throw(e) == [threw |-> TRUE, error |-> e, value |-> <<>>]

----------------------------------------------------------------------------
(* Table registry *)

\* the tables of one sheet of Sheets.Spreadsheets.get(...), in table order,
\* each with the TableMeta built from it
sheetEntries(sh) ==
    [i \in 1..Len(sh.tables) |->
        [name |-> sh.tables[i].name,
         meta |-> [tableId |-> sh.tables[i].tableId,
                   sheetId |-> sh.properties.sheetId,
                   sheetTitle |-> sh.properties.title,
                   range |-> sh.tables[i].range]]]

RECURSIVE tableEntries(_)
\* all tables in scan order: sheet order, then table order within the sheet
tableEntries(sheets) ==
    IF sheets = <<>> THEN <<>>
    ELSE sheetEntries(Head(sheets)) \o tableEntries(Tail(sheets))

\* name -> meta; a later table of the same name overwrites an earlier one
getTablesIndex(ss) ==
    LET es == tableEntries(ss.sheets)
    IN  [n \in {es[i].name : i \in 1..Len(es)} |->
            es[CHOOSE i \in 1..Len(es) :
                   es[i].name = n /\ \A j \in (i + 1)..Len(es) : es[j].name # n].meta]

getTableMetaByNameNoThrow(ss, tableName) ==
    LET idx == getTablesIndex(ss)
        es == tableEntries(ss.sheets)
    IN  IF tableName \in DOMAIN idx THEN Ok(idx[tableName])
        ELSE IF es # <<>> THEN Ok(es[1].meta)
        ELSE Throw("table not found")
getTableMetaByName(ss, tableName) ==
    LET idx == getTablesIndex(ss)
    IN  IF tableName \notin DOMAIN idx
        THEN Throw("table not found")
        ELSE Ok(idx[tableName])

\* the name scan of updateMembersTable: the first table of that name, in
\* sheet order and then table order; {} when there is none
findTableByName(sheets, tableName) ==
    LET es == tableEntries(sheets)
    IN  IF \E i \in 1..Len(es) : es[i].name = tableName
        THEN {es[CHOOSE i \in 1..Len(es) :
                    es[i].name = tableName
                    /\ \A j \in 1..(i - 1) : es[j].name # tableName].meta}
        ELSE {}

----------------------------------------------------------------------------
(* Loader of the required members *)

RECURSIVE memberRows(_, _, _, _, _)
\* the loop over values[i], i >= 1 (here: from position i of the sequence)
memberRows(values, i, displayNameIdx, emailIdx, responseRequiredIdx) ==
    IF i > Len(values) THEN <<>>
    ELSE IF /\ trim(cellOr(values[i], displayNameIdx)) = <<>>
            /\ trim(cellOr(values[i], emailIdx)) = <<>>
    THEN memberRows(values, i + 1, displayNameIdx, emailIdx, responseRequiredIdx)
    ELSE IF trim(cellOr(values[i], responseRequiredIdx)) \notin {Unnecessary, Necessary}
    THEN memberRows(values, i + 1, displayNameIdx, emailIdx, responseRequiredIdx)
    ELSE <<[displayName |-> trim(cellOr(values[i], displayNameIdx)),
            email |-> trim(cellOr(values[i], emailIdx)),
            responseRequired |-> trim(cellOr(values[i], responseRequiredIdx))]>>
         \o memberRows(values, i + 1, displayNameIdx, emailIdx, responseRequiredIdx)

\* the loader from the header on: header lookups, then the loop over the rows
requiredMembersOf(values, header) ==
    IF \/ indexOf(header, estimateRequiredMembersTable.headers.displayName) = -1
       \/ indexOf(header, estimateRequiredMembersTable.headers.email) = -1
       \/ indexOf(header, estimateRequiredMembersTable.headers.responseRequired) = -1
    THEN Throw("header not found")
    ELSE Ok(memberRows(values, 2,
             indexOf(header, estimateRequiredMembersTable.headers.displayName),
             indexOf(header, estimateRequiredMembersTable.headers.email),
             indexOf(header, estimateRequiredMembersTable.headers.responseRequired)))

\* the loader from the values read on
requiredMembersRead(values) ==
    IF Len(values) = 0 THEN Throw("table is empty")
    ELSE requiredMembersOf(values, headerOf(values))

\* the loader from the table lookup on
requiredMembersIn(ss, got) ==
    IF got.threw THEN got
    ELSE requiredMembersRead(
             ValuesGet(ss, gridRangeToA1(got.value.range, got.value.sheetTitle)))

\* getEstimateRequiredMembers past the cache test: reads the table of the
\* active spreadsheet
loadEstimateRequiredMembers(ss) ==
    requiredMembersIn(ss,
        getTableMetaByName(ss, estimateRequiredMembersTable.tableName))

\* getEstimateRequiredMembers: the cached rows when the cache is set
getEstimateRequiredMembers(ss, cache) ==
    IF cache # Undefined THEN Ok(Val(cache)) ELSE loadEstimateRequiredMembers(ss)

----------------------------------------------------------------------------
(* The other record loaders, from the values read on *)

\* glosses of the PO group members table and its headers
poGroupMembersTable ==
    [tableName |-> "PO_Group_Members",
     headers |-> [displayName |-> <<"display name">>,
                  email |-> <<"mail address">>]]

\* glosses of the issue list table and its headers
estimateIssueListTable ==
    [tableName |-> "EstimateRequired_IssueList",
     headers |-> [title |-> <<"title">>, url |-> <<"URL">>]]

\* glosses of the deadline table and its header
estimateDeadlineTable ==
    [tableName |-> "EstimateRequired_Deadline",
     headers |-> [dueDate |-> <<"due date">>]]

RECURSIVE displayNames(_, _, _, _)
\* getPoGroupMembers, the loop: the display names pushed from position i on
displayNames(values, i, dnIdx, emIdx) ==
    IF i > Len(values) THEN <<>>
    ELSE IF /\ trim(cellOr(values[i], dnIdx)) = <<>>
            /\ trim(cellOr(values[i], emIdx)) = <<>>
    THEN displayNames(values, i + 1, dnIdx, emIdx)
    ELSE (IF trim(cellOr(values[i], dnIdx)) # <<>>
          THEN <<trim(cellOr(values[i], dnIdx))>> ELSE <<>>)
         \o displayNames(values, i + 1, dnIdx, emIdx)

RECURSIVE emails(_, _, _, _)
\* getPoGroupMembers, the loop: the mail addresses pushed from position i on
emails(values, i, dnIdx, emIdx) ==
    IF i > Len(values) THEN <<>>
    ELSE IF /\ trim(cellOr(values[i], dnIdx)) = <<>>
            /\ trim(cellOr(values[i], emIdx)) = <<>>
    THEN emails(values, i + 1, dnIdx, emIdx)
    ELSE (IF trim(cellOr(values[i], emIdx)) # <<>>
          THEN <<trim(cellOr(values[i], emIdx))>> ELSE <<>>)
         \o emails(values, i + 1, dnIdx, emIdx)

\* getPoGroupMembers from the header on
poGroupMembersOf(values, header) ==
    IF \/ indexOf(header, poGroupMembersTable.headers.displayName) = -1
       \/ indexOf(header, poGroupMembersTable.headers.email) = -1
    THEN Throw("header not found")
    ELSE Ok([displayNames |->
                displayNames(values, 2,
                    indexOf(header, poGroupMembersTable.headers.displayName),
                    indexOf(header, poGroupMembersTable.headers.email)),
             emails |->
                emails(values, 2,
                    indexOf(header, poGroupMembersTable.headers.displayName),
                    indexOf(header, poGroupMembersTable.headers.email))])

\* getPoGroupMembers from the values read on
poGroupMembersRead(values) ==
    IF Len(values) = 0 THEN Throw("table is empty")
    ELSE poGroupMembersOf(values, headerOf(values))

RECURSIVE issueRowsKeepBlank(_, _, _, _)
\* the loop of getEstimateIssueList without its `continue`
issueRowsKeepBlank(values, i, titleIdx, urlIdx) ==
    IF i > Len(values) THEN <<>>
    ELSE <<[title |-> trim(cellOr(values[i], titleIdx)),
            url |-> trim(cellOr(values[i], urlIdx))]>>
         \o issueRowsKeepBlank(values, i + 1, titleIdx, urlIdx)

RECURSIVE issueRows(_, _, _, _)
\* getEstimateIssueList, the loop: the rows pushed from position i on
issueRows(values, i, titleIdx, urlIdx) ==
    IF i > Len(values) THEN <<>>
    ELSE IF /\ trim(cellOr(values[i], titleIdx)) = <<>>
            /\ trim(cellOr(values[i], urlIdx)) = <<>>
    THEN issueRows(values, i + 1, titleIdx, urlIdx)
    ELSE <<[title |-> trim(cellOr(values[i], titleIdx)),
            url |-> trim(cellOr(values[i], urlIdx))]>>
         \o issueRows(values, i + 1, titleIdx, urlIdx)

\* getEstimateIssueList from the header on
issueListOf(values, header) ==
    IF \/ indexOf(header, estimateIssueListTable.headers.title) = -1
       \/ indexOf(header, estimateIssueListTable.headers.url) = -1
    THEN Throw("header not found")
    ELSE Ok(issueRows(values, 2,
                indexOf(header, estimateIssueListTable.headers.title),
                indexOf(header, estimateIssueListTable.headers.url)))

\* getEstimateIssueList from the values read on
issueListRead(values) ==
    IF Len(values) = 0 THEN Throw("table is empty")
    ELSE issueListOf(values, headerOf(values))

RECURSIVE deadlineRows(_, _, _)
\* getEstimateDeadlines, the loop: every row from position i on is pushed
deadlineRows(values, i, dueIdx) ==
    IF i > Len(values) THEN <<>>
    ELSE <<[dueDate |-> trim(cellOr(values[i], dueIdx))]>>
         \o deadlineRows(values, i + 1, dueIdx)

\* getEstimateDeadlines from the header on
deadlinesOf(values, header) ==
    IF indexOf(header, estimateDeadlineTable.headers.dueDate) = -1
    THEN Throw("header not found")
    ELSE Ok(deadlineRows(values, 2,
                indexOf(header, estimateDeadlineTable.headers.dueDate)))

\* getEstimateDeadlines from the values read on
deadlinesRead(values) ==
    IF Len(values) = 0 THEN Throw("table is empty")
    ELSE deadlinesOf(values, headerOf(values))

----------------------------------------------------------------------------
(* Calls that change a spreadsheet, as the requests the script builds *)

\* the backend calls of the script that change a spreadsheet; `fail` names
\* the one the backend rejects, "none" when it rejects none
MembersFailPoints ==
    {"none", "insertDimension", "deleteDimension", "updateTable", "Values.update"}
HistoryFailPoints == {"none", "insertRange", "Values.update", "updateCells"}
FormFailPoints == {"none", "Values.update", "updateTable"}

\* a call: its operation, the sheet, the row span [start, end) and column
\* span [startCol, endCol) it names, and what it carries
Call(op, sheetId, start, end) ==
    [op |-> op, sheetId |-> sheetId, start |-> start, end |-> end,
     startCol |-> -1, endCol |-> -1, tableId |-> "", range |-> {},
     a1 |-> {}, rows |-> <<>>, cells |-> <<>>]

RECURSIVE UpdateCellsAll(_, _, _)
UpdateCellsAll(ss, sheetId, cells) ==
    IF cells = <<>> THEN ss
    ELSE UpdateCellsAll(
             UpdateCells(ss, sheetId, Head(cells).rowIndex, Head(cells).columnIndex,
                         Head(cells).text, Head(cells).url),
             sheetId, Tail(cells))

\* the spreadsheet after the backend carried out one call
Apply(ss, call) ==
    CASE call.op = "insertDimension" ->
            InsertDimension(ss, call.sheetId, call.start, call.end)
      [] call.op = "deleteDimension" ->
            DeleteDimension(ss, call.sheetId, call.start, call.end)
      [] call.op = "updateTable" ->
            UpdateTable(ss, call.tableId, Val(call.range))
      [] call.op = "Values.update" ->
            ValuesUpdate(ss, Val(call.a1), call.rows)
      [] call.op = "insertRange" ->
            InsertRange(ss, call.sheetId, call.start, call.end,
                        call.startCol, call.endCol)
      [] call.op = "updateCells" ->
            UpdateCellsAll(ss, call.sheetId, call.cells)

RECURSIVE issueAppliesRejected(_, _, _, _)
\* the calls with the rejected call carried out before it throws
issueAppliesRejected(ss, calls, fail, issued) ==
    IF calls = <<>> THEN [ss |-> ss, calls |-> issued, rejected |-> FALSE]
    ELSE IF Head(calls).op = fail
    THEN [ss |-> Apply(ss, Head(calls)), calls |-> Append(issued, Head(calls)),
          rejected |-> TRUE]
    ELSE issueAppliesRejected(Apply(ss, Head(calls)), Tail(calls), fail,
                              Append(issued, Head(calls)))

RECURSIVE issue(_, _, _, _)
\* The calls in program order, each awaited before the next: the rejected
\* call throws, and the calls after it are never made.
issue(ss, calls, fail, issued) ==
    IF calls = <<>> THEN [ss |-> ss, calls |-> issued, rejected |-> FALSE]
    ELSE IF Head(calls).op = fail
    THEN [ss |-> ss, calls |-> Append(issued, Head(calls)), rejected |-> TRUE]
    ELSE issue(Apply(ss, Head(calls)), Tail(calls), fail, Append(issued, Head(calls)))

\* what a run did: how it ended, the spreadsheet it left, the changing
\* backend calls it issued (rejected one included), the table it resolved,
\* the rows it required and the data rows it counted
Ran(outcome, ss, calls, meta, n, c) ==
    [outcome |-> outcome, ss |-> ss, calls |-> calls, meta |-> meta,
     requiredRows |-> n, currentDataRows |-> c]

\* the run reported as completed although a call was rejected
RanCallsRejectionSwallowed(done, meta, n, c) ==
    Ran("ok", done.ss, done.calls, meta, n, c)

RanCalls(done, meta, n, c) ==
    Ran(IF done.rejected THEN "batchUpdate rejected" ELSE "ok",
        done.ss, done.calls, meta, n, c)

----------------------------------------------------------------------------
(* updateMembersTable *)

\* the row filled by position, not by header offset
memberRowByPosition(member, index, columnCount, idx) ==
    [j \in 1..columnCount |->
        IF j = 1 THEN member.displayName
        ELSE IF j = 2 THEN member.email
        ELSE IF j = 3 THEN member.responseRequired
        ELSE IF index # 0 THEN <<>> ELSE responseStatusFormula]
\* the row with the formula in every row, not only in the first
memberRowFormulaInEveryRow(member, index, columnCount, idx) ==
    [j \in 1..columnCount |->
        IF j - 1 = idx.responseStatus THEN responseStatusFormula
        ELSE IF j - 1 = idx.responseRequired THEN member.responseRequired
        ELSE IF j - 1 = idx.email THEN member.email
        ELSE IF j - 1 = idx.displayName THEN member.displayName
        ELSE <<>>]
\* estimateMembers.map((member, index) => row), index zero-based
memberRow(member, index, columnCount, idx) ==
    [j \in 1..columnCount |->
        IF j - 1 = idx.responseStatus
        THEN (IF index # 0 THEN <<>> ELSE responseStatusFormula)
        ELSE IF j - 1 = idx.responseRequired THEN member.responseRequired
        ELSE IF j - 1 = idx.email THEN member.email
        ELSE IF j - 1 = idx.displayName THEN member.displayName
        ELSE <<>>]

\* the calls without the deletion of the old rows
membersCallsNoDelete(membersMeta, estimateMembers, idx, dataStartRow, currentDataRows, requiredRows) ==
    (IF requiredRows > 0
     THEN <<Call("insertDimension", membersMeta.sheetId, dataStartRow,
                 dataStartRow + requiredRows)>>
     ELSE <<>>)
    \o
    <<[Call("updateTable", membersMeta.sheetId,
            OrElse(membersMeta.range.startRowIndex, 0),
            OrElse(membersMeta.range.startRowIndex, 0) + 1 + requiredRows)
         EXCEPT !.tableId = membersMeta.tableId,
                !.range = {[membersMeta.range EXCEPT !.endRowIndex =
                    Def(OrElse(membersMeta.range.startRowIndex, 0) + 1 + requiredRows)]}],
      [Call("Values.update", membersMeta.sheetId, dataStartRow,
            dataStartRow + requiredRows)
         EXCEPT !.a1 = {gridRangeToA1(
                           [startRowIndex |-> Def(dataStartRow),
                            endRowIndex |-> Def(dataStartRow + requiredRows),
                            startColumnIndex |-> membersMeta.range.startColumnIndex,
                            endColumnIndex |-> membersMeta.range.endColumnIndex],
                           membersMeta.sheetTitle)},
                !.rows = [i \in 1..requiredRows |->
                    memberRow(estimateMembers[i], i - 1,
                              OrElse(membersMeta.range.endColumnIndex, 0)
                              - OrElse(membersMeta.range.startColumnIndex, 0),
                              idx)]]>>

\* the calls with the old rows deleted first and the new rows inserted after
membersCallsDeleteFirst(membersMeta, estimateMembers, idx, dataStartRow, currentDataRows, requiredRows) ==
    (IF currentDataRows > 0
     THEN <<Call("deleteDimension", membersMeta.sheetId, dataStartRow,
                 dataStartRow + currentDataRows)>>
     ELSE <<>>)
    \o
    (IF requiredRows > 0
     THEN <<Call("insertDimension", membersMeta.sheetId, dataStartRow,
                 dataStartRow + requiredRows)>>
     ELSE <<>>)
    \o
    <<[Call("updateTable", membersMeta.sheetId,
            OrElse(membersMeta.range.startRowIndex, 0),
            OrElse(membersMeta.range.startRowIndex, 0) + 1 + requiredRows)
         EXCEPT !.tableId = membersMeta.tableId,
                !.range = {[membersMeta.range EXCEPT !.endRowIndex =
                    Def(OrElse(membersMeta.range.startRowIndex, 0) + 1 + requiredRows)]}],
      [Call("Values.update", membersMeta.sheetId, dataStartRow,
            dataStartRow + requiredRows)
         EXCEPT !.a1 = {gridRangeToA1(
                           [startRowIndex |-> Def(dataStartRow),
                            endRowIndex |-> Def(dataStartRow + requiredRows),
                            startColumnIndex |-> membersMeta.range.startColumnIndex,
                            endColumnIndex |-> membersMeta.range.endColumnIndex],
                           membersMeta.sheetTitle)},
                !.rows = [i \in 1..requiredRows |->
                    memberRow(estimateMembers[i], i - 1,
                              OrElse(membersMeta.range.endColumnIndex, 0)
                              - OrElse(membersMeta.range.startColumnIndex, 0),
                              idx)]]>>

\* the calls with the rectangle update issued first
membersCallsRectangleFirst(membersMeta, estimateMembers, idx, dataStartRow, currentDataRows, requiredRows) ==
    <<[Call("updateTable", membersMeta.sheetId,
            OrElse(membersMeta.range.startRowIndex, 0),
            OrElse(membersMeta.range.startRowIndex, 0) + 1 + requiredRows)
         EXCEPT !.tableId = membersMeta.tableId,
                !.range = {[membersMeta.range EXCEPT !.endRowIndex =
                    Def(OrElse(membersMeta.range.startRowIndex, 0) + 1 + requiredRows)]}]>>
    \o
    (IF requiredRows > 0
     THEN <<Call("insertDimension", membersMeta.sheetId, dataStartRow,
                 dataStartRow + requiredRows)>>
     ELSE <<>>)
    \o
    (IF currentDataRows > 0
     THEN <<Call("deleteDimension", membersMeta.sheetId, dataStartRow + requiredRows,
                 dataStartRow + requiredRows + currentDataRows)>>
     ELSE <<>>)
    \o
    <<[Call("Values.update", membersMeta.sheetId, dataStartRow,
            dataStartRow + requiredRows)
         EXCEPT !.a1 = {gridRangeToA1(
                           [startRowIndex |-> Def(dataStartRow),
                            endRowIndex |-> Def(dataStartRow + requiredRows),
                            startColumnIndex |-> membersMeta.range.startColumnIndex,
                            endColumnIndex |-> membersMeta.range.endColumnIndex],
                           membersMeta.sheetTitle)},
                !.rows = [i \in 1..requiredRows |->
                    memberRow(estimateMembers[i], i - 1,
                              OrElse(membersMeta.range.endColumnIndex, 0)
                              - OrElse(membersMeta.range.startColumnIndex, 0),
                              idx)]]>>

\* steps 1 to 4 of updateMembersTable as the calls it makes
membersCalls(membersMeta, estimateMembers, idx, dataStartRow, currentDataRows, requiredRows) ==
    (IF requiredRows > 0
     THEN <<Call("insertDimension", membersMeta.sheetId, dataStartRow,
                 dataStartRow + requiredRows)>>
     ELSE <<>>)
    \o
    (IF currentDataRows > 0
     THEN <<Call("deleteDimension", membersMeta.sheetId, dataStartRow + requiredRows,
                 dataStartRow + requiredRows + currentDataRows)>>
     ELSE <<>>)
    \o
    <<[Call("updateTable", membersMeta.sheetId,
            OrElse(membersMeta.range.startRowIndex, 0),
            OrElse(membersMeta.range.startRowIndex, 0) + 1 + requiredRows)
         EXCEPT !.tableId = membersMeta.tableId,
                !.range = {[membersMeta.range EXCEPT !.endRowIndex =
                    Def(OrElse(membersMeta.range.startRowIndex, 0) + 1 + requiredRows)]}],
      [Call("Values.update", membersMeta.sheetId, dataStartRow,
            dataStartRow + requiredRows)
         EXCEPT !.a1 = {gridRangeToA1(
                           [startRowIndex |-> Def(dataStartRow),
                            endRowIndex |-> Def(dataStartRow + requiredRows),
                            startColumnIndex |-> membersMeta.range.startColumnIndex,
                            endColumnIndex |-> membersMeta.range.endColumnIndex],
                           membersMeta.sheetTitle)},
                !.rows = [i \in 1..requiredRows |->
                    memberRow(estimateMembers[i], i - 1,
                              OrElse(membersMeta.range.endColumnIndex, 0)
                              - OrElse(membersMeta.range.startColumnIndex, 0),
                              idx)]]>>

\* the write with the header row counted among the data rows
membersWriteCountsHeader(ss, estimateMembers, fail, membersMeta, values, idx) ==
    IF \/ idx.displayName = -1
       \/ idx.email = -1
       \/ idx.responseRequired = -1
       \/ idx.responseStatus = -1
    THEN Ran("Required headers not found", ss, <<>>, {membersMeta}, -1, -1)
    ELSE RanCalls(
             issue(ss,
                   membersCalls(membersMeta, estimateMembers, idx,
                                OrElse(membersMeta.range.startRowIndex, 0) + 1,
                                Len(values), Len(estimateMembers)),
                   fail, <<>>),
             {membersMeta}, Len(estimateMembers), Len(values))

\* whether the n rows directly below the header row of the table are blank
blankBelowHeader(ss, membersMeta, n) ==
    \A r \in (OrElse(membersMeta.range.startRowIndex, 0) + 2)
             ..(OrElse(membersMeta.range.startRowIndex, 0) + 1 + n) :
        /\ r <= Len(ss.sheets[sheetIndexById(ss, membersMeta.sheetId)].grid)
        /\ ss.sheets[sheetIndexById(ss, membersMeta.sheetId)].grid[r] = BlankRow

\* the write that takes blank rows below the header for rows it inserted
\* before and does not insert again
membersWriteResumesOverBlankRows(ss, estimateMembers, fail, membersMeta, values, idx) ==
    IF \/ idx.displayName = -1
       \/ idx.email = -1
       \/ idx.responseRequired = -1
       \/ idx.responseStatus = -1
    THEN Ran("Required headers not found", ss, <<>>, {membersMeta}, -1, -1)
    ELSE RanCalls(
             issue(ss,
                   IF blankBelowHeader(ss, membersMeta, Len(estimateMembers))
                   THEN Tail(membersCalls(membersMeta, estimateMembers, idx,
                                OrElse(membersMeta.range.startRowIndex, 0) + 1,
                                Len(values) - 1, Len(estimateMembers)))
                   ELSE membersCalls(membersMeta, estimateMembers, idx,
                                OrElse(membersMeta.range.startRowIndex, 0) + 1,
                                Len(values) - 1, Len(estimateMembers)),
                   fail, <<>>),
             {membersMeta}, Len(estimateMembers), Len(values) - 1)

\* updateMembersTable from the header lookups on
membersWrite(ss, estimateMembers, fail, membersMeta, values, idx) ==
    IF \/ idx.displayName = -1
       \/ idx.email = -1
       \/ idx.responseRequired = -1
       \/ idx.responseStatus = -1
    THEN Ran("Required headers not found", ss, <<>>, {membersMeta}, -1, -1)
    ELSE RanCalls(
             issue(ss,
                   membersCalls(membersMeta, estimateMembers, idx,
                                OrElse(membersMeta.range.startRowIndex, 0) + 1,
                                Len(values) - 1, Len(estimateMembers)),
                   fail, <<>>),
             {membersMeta}, Len(estimateMembers), Len(values) - 1)

membersHeaderIdx(header) ==
    [displayName |-> indexOf(header, membersTable.headers.displayName),
     email |-> indexOf(header, membersTable.headers.email),
     responseRequired |-> indexOf(header, membersTable.headers.responseRequired),
     responseStatus |-> indexOf(header, membersTable.headers.responseStatus)]

\* updateMembersTable from the values read on
membersRead(ss, estimateMembers, fail, membersMeta, values) ==
    IF Len(values) = 0
    THEN Ran("Table is empty", ss, <<>>, {membersMeta}, -1, -1)
    ELSE membersWrite(ss, estimateMembers, fail, membersMeta, values,
                      membersHeaderIdx(headerOf(values)))

\* updateMembersTable from the name scan on
membersFound(ss, estimateMembers, fail, found) ==
    IF found = {} THEN Ran("Table not found", ss, <<>>, {}, -1, -1)
    ELSE membersRead(ss, estimateMembers, fail, Val(found),
                     ValuesGet(ss, gridRangeToA1(Val(found).range,
                                                 Val(found).sheetTitle)))

\* the try block of updateMembersTable, with estimateMembers non-empty
updateMembersTableTry(ss, estimateMembers, fail) ==
    membersFound(ss, estimateMembers, fail,
                 findTableByName(ss.sheets, membersTable.tableName))

\* the procedure without the early return on an empty list
updateMembersTableNoSkip(ss, urlOk, loaded, fail) ==
    IF ~urlOk THEN Ran("Invalid spreadsheet URL", ss, <<>>, {}, -1, -1)
    ELSE IF loaded.threw THEN Ran(loaded.error, ss, <<>>, {}, -1, -1)
    ELSE updateMembersTableTry(ss, loaded.value, fail)

\* updateMembersTable(spreadsheetUrl) on the spreadsheet ss the URL names;
\* urlOk: whether the URL matches /spreadsheets/d/<id>; loaded: the result of
\* getEstimateRequiredMembers()
updateMembersTable(ss, urlOk, loaded, fail) ==
    IF ~urlOk THEN Ran("Invalid spreadsheet URL", ss, <<>>, {}, -1, -1)
    ELSE IF loaded.threw THEN Ran(loaded.error, ss, <<>>, {}, -1, -1)
    ELSE IF Len(loaded.value) = 0 THEN Ran("skipped", ss, <<>>, {}, 0, -1)
    ELSE updateMembersTableTry(ss, loaded.value, fail)

----------------------------------------------------------------------------
(* addEstimateHistoryTopRow *)

idxByNameSentinel(headerVals, name) == Ok(indexOf(headerVals, name))
\* idxByName of addEstimateHistoryTopRow
idxByName(headerVals, name) ==
    IF indexOf(headerVals, name) = -1
    THEN Throw("header not found")
    ELSE Ok(indexOf(headerVals, name))

\* the calls with whole sheet rows inserted, not cells of the table's columns
historyCallsWholeRow(meta, row, idx, dataTop0, startCol0, endCol0) ==
    <<Call("insertDimension", meta.sheetId, dataTop0, dataTop0 + 1),
      [Call("Values.update", meta.sheetId, dataTop0, dataTop0 + 1)
         EXCEPT !.a1 = {gridRangeToA1(
                           [startRowIndex |-> Def(dataTop0),
                            endRowIndex |-> Def(dataTop0 + 1),
                            startColumnIndex |-> Def(startCol0),
                            endColumnIndex |-> Def(endCol0)],
                           meta.sheetTitle)},
                !.rows = <<[j \in 1..(endCol0 - startCol0) |->
                              IF j - 1 = idx.result THEN row.resultText
                              ELSE IF j - 1 = idx.form THEN row.formText
                              ELSE IF j - 1 = idx.mid THEN row.midText
                              ELSE IF j - 1 = idx.date THEN row.date
                              ELSE <<>>]>>]>>

\* steps 1 to 3 of addEstimateHistoryTopRow as the calls it makes
historyCalls(meta, row, idx, dataTop0, startCol0, endCol0) ==
    <<[Call("insertRange", meta.sheetId, dataTop0, dataTop0 + 1)
         EXCEPT !.startCol = startCol0, !.endCol = endCol0],
      [Call("Values.update", meta.sheetId, dataTop0, dataTop0 + 1)
         EXCEPT !.a1 = {gridRangeToA1(
                           [startRowIndex |-> Def(dataTop0),
                            endRowIndex |-> Def(dataTop0 + 1),
                            startColumnIndex |-> Def(startCol0),
                            endColumnIndex |-> Def(endCol0)],
                           meta.sheetTitle)},
                !.rows = <<[j \in 1..(endCol0 - startCol0) |->
                              IF j - 1 = idx.result THEN row.resultText
                              ELSE IF j - 1 = idx.form THEN row.formText
                              ELSE IF j - 1 = idx.mid THEN row.midText
                              ELSE IF j - 1 = idx.date THEN row.date
                              ELSE <<>>]>>],
      [Call("updateCells", meta.sheetId, dataTop0, dataTop0 + 1)
         EXCEPT !.cells =
            <<[rowIndex |-> dataTop0, columnIndex |-> startCol0 + idx.mid,
               text |-> row.midText, url |-> row.midUrl],
              [rowIndex |-> dataTop0, columnIndex |-> startCol0 + idx.form,
               text |-> row.formText, url |-> row.formUrl],
              [rowIndex |-> dataTop0, columnIndex |-> startCol0 + idx.result,
               text |-> row.resultText, url |-> row.resultUrl]>>]>>

\* addEstimateHistoryTopRow from the header lookups on; the lookups are made
\* in the order date, mid, form, result and the first that throws ends the run
historyWrite(ss, row, fail, meta, idxDate, idxMid, idxForm, idxResult) ==
    IF idxDate.threw THEN Ran(idxDate.error, ss, <<>>, {meta}, -1, -1)
    ELSE IF idxMid.threw THEN Ran(idxMid.error, ss, <<>>, {meta}, -1, -1)
    ELSE IF idxForm.threw THEN Ran(idxForm.error, ss, <<>>, {meta}, -1, -1)
    ELSE IF idxResult.threw THEN Ran(idxResult.error, ss, <<>>, {meta}, -1, -1)
    ELSE RanCalls(
             issue(ss,
                   historyCalls(meta, row,
                                [date |-> idxDate.value, mid |-> idxMid.value,
                                 form |-> idxForm.value, result |-> idxResult.value],
                                OrElse(meta.range.startRowIndex, 0) + 1,
                                OrElse(meta.range.startColumnIndex, 0),
                                OrElse(meta.range.endColumnIndex,
                                       OrElse(meta.range.startColumnIndex, 0) + 1)),
                   fail, <<>>),
             {meta}, 1, -1)

\* addEstimateHistoryTopRow from the header read on;
\* headerVals: (values || [[]])[0].map((v) => String(v).trim())
historyHeaderRead(ss, row, fail, meta, headerVals) ==
    historyWrite(ss, row, fail, meta,
                 idxByName(headerVals, estimateHistoryTable.headers.date),
                 idxByName(headerVals, estimateHistoryTable.headers.mid),
                 idxByName(headerVals, estimateHistoryTable.headers.form),
                 idxByName(headerVals, estimateHistoryTable.headers.result))

headerValsOf(read) == IF read = <<>> THEN <<>> ELSE headerOf(read)

\* the address of the header row of the table
historyHeaderA1(meta) ==
    gridRangeToA1(
        [startRowIndex |-> Def(OrElse(meta.range.startRowIndex, 0)),
         endRowIndex |-> Def(OrElse(meta.range.startRowIndex, 0) + 1),
         startColumnIndex |-> Def(OrElse(meta.range.startColumnIndex, 0)),
         endColumnIndex |-> Def(OrElse(meta.range.endColumnIndex,
                                       OrElse(meta.range.startColumnIndex, 0) + 1))],
        meta.sheetTitle)

\* addEstimateHistoryTopRow from the table lookup on
historyFound(ss, row, fail, got) ==
    IF got.threw THEN Ran(got.error, ss, <<>>, {}, -1, -1)
    ELSE historyHeaderRead(ss, row, fail, got.value,
             headerValsOf(ValuesGet(ss, historyHeaderA1(got.value))))

\* addEstimateHistoryTopRow(row) on the active spreadsheet ss
addEstimateHistoryTopRow(ss, row, fail) ==
    historyFound(ss, row, fail,
                 getTableMetaByName(ss, estimateHistoryTable.tableName))

----------------------------------------------------------------------------
(* addFormResponsesDummyRow *)

\* header.map(headerCell => ...): "dummy" under the mail address, "" elsewhere
dummyRowData(header) ==
    [j \in 1..Len(header) |->
        IF trim(header[j]) = formResponsesTable.headers.email
        THEN <<"dummy">> ELSE <<>>]

\* the calls with a row inserted for the dummy values
formCallsInsertsRow(formResponsesMeta, header, tableStartRow) ==
    <<Call("insertDimension", formResponsesMeta.sheetId, tableStartRow,
           tableStartRow + 1),
      [Call("Values.update", formResponsesMeta.sheetId, tableStartRow,
            tableStartRow + 1)
         EXCEPT !.a1 = {gridRangeToA1(
                           [startRowIndex |-> Def(tableStartRow),
                            endRowIndex |-> Def(tableStartRow + 1),
                            startColumnIndex |->
                                formResponsesMeta.range.startColumnIndex,
                            endColumnIndex |->
                                formResponsesMeta.range.endColumnIndex],
                           formResponsesMeta.sheetTitle)},
                !.rows = <<dummyRowData(header)>>],
      [Call("updateTable", formResponsesMeta.sheetId,
            OrElse(formResponsesMeta.range.startRowIndex, 0),
            OrElse(formResponsesMeta.range.startRowIndex, 0) + 2)
         EXCEPT !.tableId = formResponsesMeta.tableId,
                !.range = {[formResponsesMeta.range EXCEPT !.endRowIndex =
                    Def(OrElse(formResponsesMeta.range.startRowIndex, 0) + 2)]}]>>

\* the value write and the rectangle update of addFormResponsesDummyRow
formCalls(formResponsesMeta, header, tableStartRow) ==
    <<[Call("Values.update", formResponsesMeta.sheetId, tableStartRow,
            tableStartRow + 1)
         EXCEPT !.a1 = {gridRangeToA1(
                           [startRowIndex |-> Def(tableStartRow),
                            endRowIndex |-> Def(tableStartRow + 1),
                            startColumnIndex |->
                                formResponsesMeta.range.startColumnIndex,
                            endColumnIndex |->
                                formResponsesMeta.range.endColumnIndex],
                           formResponsesMeta.sheetTitle)},
                !.rows = <<dummyRowData(header)>>],
      [Call("updateTable", formResponsesMeta.sheetId,
            OrElse(formResponsesMeta.range.startRowIndex, 0),
            OrElse(formResponsesMeta.range.startRowIndex, 0) + 2)
         EXCEPT !.tableId = formResponsesMeta.tableId,
                !.range = {[formResponsesMeta.range EXCEPT !.endRowIndex =
                    Def(OrElse(formResponsesMeta.range.startRowIndex, 0) + 2)]}]>>

\* addFormResponsesDummyRow from the values read on
formRead(ss, fail, formResponsesMeta, values) ==
    IF Len(values) = 0
    THEN Ran("Table is empty", ss, <<>>, {formResponsesMeta}, -1, -1)
    ELSE RanCalls(
             issue(ss,
                   formCalls(formResponsesMeta, headerOf(values),
                             OrElse(formResponsesMeta.range.startRowIndex, 0) + 1),
                   fail, <<>>),
             {formResponsesMeta}, 1, Len(values) - 1)

\* addFormResponsesDummyRow from the name scan on
formFound(ss, fail, found) ==
    IF found = {} THEN Ran("Table not found", ss, <<>>, {}, -1, -1)
    ELSE formRead(ss, fail, Val(found),
                  ValuesGet(ss, gridRangeToA1(Val(found).range,
                                              Val(found).sheetTitle)))

\* addFormResponsesDummyRow(spreadsheetUrl) on the spreadsheet ss the URL
\* names; urlOk: whether the URL matches /spreadsheets/d/<id>
addFormResponsesDummyRow(ss, urlOk, fail) ==
    IF ~urlOk THEN Ran("Invalid spreadsheet URL", ss, <<>>, {}, -1, -1)
    ELSE formFound(ss, fail, findTableByName(ss.sheets, formResponsesTable.tableName))

----------------------------------------------------------------------------
(* getTableHeaderInfo and updateResultSummaryTable, as listed in README.md *)

\* isGridRange(range): the four bounds of the range are defined
isGridRange(range) ==
    /\ range.startRowIndex # Undefined
    /\ range.endRowIndex # Undefined
    /\ range.startColumnIndex # Undefined
    /\ range.endColumnIndex # Undefined

\* gridRangeToA1 of the listing on a range that passed isGridRange:
\* sr = startRowIndex + 1, er = endRowIndex + 1
gridRangeToA1Listed(gr, sheetTitle) ==
    [sheet |-> sheetTitle,
     sc |-> toColA1(Val(gr.startColumnIndex)), sr |-> Val(gr.startRowIndex) + 1,
     ec |-> toColA1(Val(gr.endColumnIndex) - 1), er |-> Val(gr.endRowIndex) + 1]

\* whether the spreadsheet has a sheet of that title
hasSheet(ss, title) ==
    \E i \in 1..Len(ss.sheets) : ss.sheets[i].properties.title = title

\* the address of the header row as getTableHeaderInfo builds it:
\* rows dataTop0 - 1 .. dataTop0, columns startCol0 .. endCol0
headerA1(meta) ==
    gridRangeToA1Listed(
        [startRowIndex |-> Def(OrElse(meta.range.startRowIndex, 0)),
         endRowIndex |-> Def(OrElse(meta.range.startRowIndex, 0) + 1),
         startColumnIndex |-> Def(OrElse(meta.range.startColumnIndex, 0)),
         endColumnIndex |-> Def(OrElse(meta.range.endColumnIndex,
                                       OrElse(meta.range.startColumnIndex, 0) + 1))],
        meta.sheetTitle)

\* what getTableHeaderInfo returns, with the number of Values.get calls it made
HeaderInfo(meta, headerVals, reads) ==
    Ok([sheetId |-> meta.sheetId, sheetTitle |-> meta.sheetTitle,
        startCol0 |-> OrElse(meta.range.startColumnIndex, 0),
        endCol0 |-> OrElse(meta.range.endColumnIndex,
                           OrElse(meta.range.startColumnIndex, 0) + 1),
        dataTop0 |-> OrElse(meta.range.startRowIndex, 0) + 1,
        headerVals |-> headerVals, reads |-> reads])

\* getTableHeaderInfo(meta, values); values: the optional second argument;
\* activeSs: the spreadsheet SpreadsheetApp.getActiveSpreadsheet() names,
\* which the header row is read from when values or values[0] is missing
getTableHeaderInfo(activeSs, meta, values) ==
    IF values # Undefined /\ Val(values) # <<>>
    THEN HeaderInfo(meta, headerOf(Val(values)), 0)
    ELSE IF ~hasSheet(activeSs, meta.sheetTitle) THEN Throw("Unable to parse range")
    ELSE HeaderInfo(meta, headerValsOf(ValuesGet(activeSs, headerA1(meta))), 1)

\* tableName: "kekka matome" (result summary); headers: ID, estimate target,
\* status.  The listing looks six more headers up (average, response
\* summary, min, max, min by, max by) and fills their columns with formulas
\* as it fills status; the sheets of the model carry the first three.
resultSummaryTable ==
    [tableName |-> "ResultSummary",
     headers |-> [id |-> <<"ID">>,
                  estimateTarget |-> <<"estimate target">>,
                  status |-> <<"status">>]]

SummaryFailPoints ==
    {"none", "insertDimension", "deleteDimension", "updateTable", "Values.update",
     "updateCells"}

\* the LET(...) formula text written to "status"
statusFormula == <<"=LET(...)">>

\* the uri of a link cell: the text of the url, which is one chunk or none
uriOf(url) == IF url = <<>> THEN "" ELSE url[1]

\* issueList.map((entry, index) => row): Array(columnCount).fill(""), then
\* row[idIdx], row[estimateTargetIdx], row[statusIdx] in this order
summaryRow(entry, index, columnCount, idx) ==
    [j \in 1..columnCount |->
        IF j - 1 = idx.status THEN statusFormula
        ELSE IF j - 1 = idx.estimateTarget THEN entry.title
        ELSE IF j - 1 = idx.id THEN <<"E", ToString(index + 1)>>
        ELSE <<>>]

\* steps 1 to 5 of updateResultSummaryTable as the calls it makes
summaryCalls(resultSummaryMeta, issueList, idx, dataStartRow, currentDataRows, requiredRows) ==
    (IF requiredRows > 0
     THEN <<Call("insertDimension", resultSummaryMeta.sheetId, dataStartRow,
                 dataStartRow + requiredRows)>>
     ELSE <<>>)
    \o
    (IF currentDataRows > 0
     THEN <<Call("deleteDimension", resultSummaryMeta.sheetId,
                 dataStartRow + requiredRows,
                 dataStartRow + requiredRows + currentDataRows)>>
     ELSE <<>>)
    \o
    <<[Call("updateTable", resultSummaryMeta.sheetId,
            OrElse(resultSummaryMeta.range.startRowIndex, 0),
            OrElse(resultSummaryMeta.range.startRowIndex, 0) + 1 + requiredRows)
         EXCEPT !.tableId = resultSummaryMeta.tableId,
                !.range = {[resultSummaryMeta.range EXCEPT !.endRowIndex =
                    Def(OrElse(resultSummaryMeta.range.startRowIndex, 0) + 1
                        + requiredRows)]}],
      [Call("Values.update", resultSummaryMeta.sheetId, dataStartRow,
            dataStartRow + requiredRows)
         EXCEPT !.a1 = {gridRangeToA1Listed(
                           [startRowIndex |-> Def(dataStartRow),
                            endRowIndex |-> Def(dataStartRow + requiredRows),
                            startColumnIndex |->
                                resultSummaryMeta.range.startColumnIndex,
                            endColumnIndex |->
                                resultSummaryMeta.range.endColumnIndex],
                           resultSummaryMeta.sheetTitle)},
                !.rows = [i \in 1..requiredRows |->
                    summaryRow(issueList[i], i - 1,
                               OrElse(resultSummaryMeta.range.endColumnIndex, 0)
                               - OrElse(resultSummaryMeta.range.startColumnIndex, 0),
                               idx)]],
      [Call("updateCells", resultSummaryMeta.sheetId, dataStartRow,
            dataStartRow + requiredRows)
         EXCEPT !.cells = [i \in 1..requiredRows |->
                    [rowIndex |-> dataStartRow + i - 1,
                     columnIndex |->
                         OrElse(resultSummaryMeta.range.startColumnIndex, 0)
                         + idx.estimateTarget,
                     text |-> issueList[i].title,
                     url |-> uriOf(issueList[i].url)]]]>>

\* updateResultSummaryTable from the header lookups on; the lookups are made
\* in the order id, estimate target, status and the first that throws ends
\* the run
summaryWrite(ss, issueList, fail, resultSummaryMeta, values, idIdx, estimateTargetIdx, statusIdx) ==
    IF idIdx.threw
    THEN Ran(idIdx.error, ss, <<>>, {resultSummaryMeta}, -1, -1)
    ELSE IF estimateTargetIdx.threw
    THEN Ran(estimateTargetIdx.error, ss, <<>>, {resultSummaryMeta}, -1, -1)
    ELSE IF statusIdx.threw
    THEN Ran(statusIdx.error, ss, <<>>, {resultSummaryMeta}, -1, -1)
    ELSE RanCalls(
             issue(ss,
                   summaryCalls(resultSummaryMeta, issueList,
                                [id |-> idIdx.value,
                                 estimateTarget |-> estimateTargetIdx.value,
                                 status |-> statusIdx.value],
                                OrElse(resultSummaryMeta.range.startRowIndex, 0) + 1,
                                Len(values) - 1, Len(issueList)),
                   fail, <<>>),
             {resultSummaryMeta}, Len(issueList), Len(values) - 1)

\* updateResultSummaryTable from the header information on
summaryHeader(ss, issueList, fail, resultSummaryMeta, values, info) ==
    IF info.threw THEN Ran(info.error, ss, <<>>, {resultSummaryMeta}, -1, -1)
    ELSE summaryWrite(ss, issueList, fail, resultSummaryMeta, values,
             idxByName(info.value.headerVals, resultSummaryTable.headers.id),
             idxByName(info.value.headerVals,
                       resultSummaryTable.headers.estimateTarget),
             idxByName(info.value.headerVals, resultSummaryTable.headers.status))

\* updateResultSummaryTable from the values read on
summaryRead(ss, activeSs, issueList, fail, resultSummaryMeta, values) ==
    IF Len(values) = 0
    THEN Ran("Table is empty", ss, <<>>, {resultSummaryMeta}, -1, -1)
    ELSE summaryHeader(ss, issueList, fail, resultSummaryMeta, values,
                       getTableHeaderInfo(activeSs, resultSummaryMeta, Def(values)))

\* updateResultSummaryTable from the name scan on; found: the first table of
\* the name in the listing, or none
summaryFound(ss, activeSs, issueList, fail, found) ==
    IF found = {} THEN Ran("Table not found", ss, <<>>, {}, -1, -1)
    ELSE IF ~isGridRange(Val(found).range)
    THEN Ran("Table range is undefined", ss, <<>>, {}, -1, -1)
    ELSE summaryRead(ss, activeSs, issueList, fail, Val(found),
                     ValuesGet(ss, gridRangeToA1Listed(Val(found).range,
                                                       Val(found).sheetTitle)))

\* getEstimateIssueList().filter(({ title, url }) => title || url)
withTitleOrUrl(list) ==
    SelectSeq(list, LAMBDA entry : entry.title # <<>> \/ entry.url # <<>>)

\* updateResultSummaryTable(spreadsheetUrl) on the spreadsheet ss the URL
\* names; loaded: the result of getEstimateIssueList()
updateResultSummaryTable(ss, activeSs, urlOk, loaded, fail) ==
    IF ~urlOk THEN Ran("Invalid spreadsheet URL", ss, <<>>, {}, -1, -1)
    ELSE IF loaded.threw THEN Ran(loaded.error, ss, <<>>, {}, -1, -1)
    ELSE IF Len(withTitleOrUrl(loaded.value)) = 0
    THEN Ran("skipped", ss, <<>>, {}, 0, -1)
    ELSE summaryFound(ss, activeSs, withTitleOrUrl(loaded.value), fail,
                      findTableByName(ss.sheets, resultSummaryTable.tableName))

----------------------------------------------------------------------------
(* The loaders on the active spreadsheet, as the tests call them *)

\* glosses of the template table, its headers and its three required names
estimateTemplatesTable ==
    [tableName |-> "EstimateRequired_Template",
     headers |-> [name |-> <<"name">>, link |-> <<"link">>]]
GoogleForm == <<"Google Form">>
MidSpreadsheet == <<"mid spreadsheet">>
ResultSpreadsheet == <<"result spreadsheet">>

\* a loader after its table lookup: a1 of the meta, then Values.get
tableValues(ss, meta) == ValuesGet(ss, gridRangeToA1(meta.range, meta.sheetTitle))

RECURSIVE tempMap(_, _, _, _, _)
\* getEstimateTemplateLinks, the loop: tempMap[name] = link for the rows
\* with a name and a link, a later row overwriting an earlier one
tempMap(values, i, nameIdx, linkIdx, map) ==
    IF i > Len(values) THEN map
    ELSE IF \/ trim(cellOr(values[i], nameIdx)) = <<>>
            \/ trim(cellOr(values[i], linkIdx)) = <<>>
    THEN tempMap(values, i + 1, nameIdx, linkIdx, map)
    ELSE tempMap(values, i + 1, nameIdx, linkIdx,
                 [n \in DOMAIN map \cup {trim(cellOr(values[i], nameIdx))} |->
                     IF n = trim(cellOr(values[i], nameIdx))
                     THEN trim(cellOr(values[i], linkIdx)) ELSE map[n]])

\* getEstimateTemplateLinks from the map on: the three required links
templateLinksIn(map) ==
    IF GoogleForm \notin DOMAIN map THEN Throw("required link not found")
    ELSE IF MidSpreadsheet \notin DOMAIN map THEN Throw("required link not found")
    ELSE IF ResultSpreadsheet \notin DOMAIN map THEN Throw("required link not found")
    ELSE Ok([googleForm |-> map[GoogleForm],
             midSpreadsheet |-> map[MidSpreadsheet],
             resultSpreadsheet |-> map[ResultSpreadsheet]])

\* getEstimateTemplateLinks from the header on
templateLinksOf(values, header) ==
    IF \/ indexOf(header, estimateTemplatesTable.headers.name) = -1
       \/ indexOf(header, estimateTemplatesTable.headers.link) = -1
    THEN Throw("header not found")
    ELSE templateLinksIn(
             tempMap(values, 2,
                     indexOf(header, estimateTemplatesTable.headers.name),
                     indexOf(header, estimateTemplatesTable.headers.link), <<>>))

\* getEstimateTemplateLinks from the values read on
templateLinksRead(values) ==
    IF Len(values) = 0 THEN Throw("table is empty")
    ELSE templateLinksOf(values, headerOf(values))

\* the loaders with their caches unset
templateLinksFrom(ss, got) ==
    IF got.threw THEN got ELSE templateLinksRead(tableValues(ss, got.value))
getEstimateTemplateLinks(ss) ==
    templateLinksFrom(ss, getTableMetaByName(ss, estimateTemplatesTable.tableName))
poGroupMembersFrom(ss, got) ==
    IF got.threw THEN got ELSE poGroupMembersRead(tableValues(ss, got.value))
getPoGroupMembers(ss) ==
    poGroupMembersFrom(ss, getTableMetaByName(ss, poGroupMembersTable.tableName))
issueListFrom(ss, got) ==
    IF got.threw THEN got ELSE issueListRead(tableValues(ss, got.value))
getEstimateIssueList(ss) ==
    issueListFrom(ss, getTableMetaByName(ss, estimateIssueListTable.tableName))
deadlinesFrom(ss, got) ==
    IF got.threw THEN got ELSE deadlinesRead(tableValues(ss, got.value))
getEstimateDeadlines(ss) ==
    deadlinesFrom(ss, getTableMetaByName(ss, estimateDeadlineTable.tableName))

----------------------------------------------------------------------------
(* The test registry and the test runner *)

\* the row the test "estimate_history:addRow" adds
TestHistoryRow ==
    [date |-> <<"2025-08-30">>,
     midText |-> <<"test", "mid">>, midUrl |-> "https://www.google.com/",
     formText |-> <<"test", "form">>, formUrl |-> "https://www.google.com/",
     resultText |-> <<"test", "result">>, resultUrl |-> "https://www.google.com/"]

\* tests: the registered tests in the order of their tests.push calls, with
\* glosses of their fail messages
tests ==
    <<[name |-> "sample:true", failMessage |-> "should be true"],
      [name |-> "sample:sum", failMessage |-> "1 + 2 should equal 3"],
      [name |-> "template:required_keys", failMessage |-> "a required link is missing"],
      [name |-> "template:google_form_link", failMessage |-> "no Google Form link"],
      [name |-> "template:mid_spreadsheet_link", failMessage |-> "no mid link"],
      [name |-> "template:result_spreadsheet_link", failMessage |-> "no result link"],
      [name |-> "po_members:columns", failMessage |-> "PO headers missing"],
      [name |-> "po_members:nonempty:displayNames", failMessage |-> "no display name"],
      [name |-> "po_members:nonempty:emails", failMessage |-> "no mail address"],
      [name |-> "estimate_history:addRow", failMessage |-> "adding the row failed"],
      [name |-> "estimate_required_members:columns",
       failMessage |-> "member headers missing"],
      [name |-> "estimate_issue_list:columns", failMessage |-> "issue headers missing"],
      [name |-> "estimate_deadline:columns", failMessage |-> "due date header missing"],
      [name |-> "estimate_deadline:length1", failMessage |-> "not exactly one row"]>>

\* what a check did: the value compared with true, or the error thrown; the
\* spreadsheet it left and the changing backend calls it issued
Returned(ok, ss) ==
    [ok |-> ok, threw |-> FALSE, error |-> "", ss |-> ss, calls |-> <<>>]
Thrown(error, ss, calls) ==
    [ok |-> FALSE, threw |-> TRUE, error |-> error, ss |-> ss, calls |-> calls]

\* a check that calls a loader and returns true
loaderCheck(loaded, ss) ==
    IF loaded.threw THEN Thrown(loaded.error, ss, <<>>) ELSE Returned(TRUE, ss)
\* the checks of the three link accessors: link.length > 0
linkCheck(loaded, ss, key) ==
    IF loaded.threw THEN Thrown(loaded.error, ss, <<>>)
    ELSE Returned(Len(loaded.value[key]) > 0, ss)
\* the check of "template:required_keys": all three links truthy
requiredKeysCheck(loaded, ss) ==
    IF loaded.threw THEN Thrown(loaded.error, ss, <<>>)
    ELSE Returned(/\ loaded.value.googleForm # <<>>
                  /\ loaded.value.midSpreadsheet # <<>>
                  /\ loaded.value.resultSpreadsheet # <<>>, ss)
\* the checks list.length >= 1 of the PO members tests
nonemptyCheck(loaded, ss, key) ==
    IF loaded.threw THEN Thrown(loaded.error, ss, <<>>)
    ELSE Returned(Len(loaded.value[key]) >= 1, ss)
\* the check of "estimate_deadline:length1"
length1Check(loaded, ss) ==
    IF loaded.threw THEN Thrown(loaded.error, ss, <<>>)
    ELSE Returned(Len(loaded.value) = 1, ss)
\* the check of "estimate_history:addRow": returns true unless the call threw
addRowCheck(ran) ==
    IF ran.outcome = "ok"
    THEN [ok |-> TRUE, threw |-> FALSE, error |-> "", ss |-> ran.ss,
          calls |-> ran.calls]
    ELSE Thrown(ran.outcome, ran.ss, ran.calls)

\* tc.check() of the registered test of that name
check(name, ss, fail) ==
    CASE name = "sample:true" -> Returned(TRUE, ss)
      [] name = "sample:sum" -> Returned(1 + 2 = 3, ss)
      [] name = "template:required_keys" ->
            requiredKeysCheck(getEstimateTemplateLinks(ss), ss)
      [] name = "template:google_form_link" ->
            linkCheck(getEstimateTemplateLinks(ss), ss, "googleForm")
      [] name = "template:mid_spreadsheet_link" ->
            linkCheck(getEstimateTemplateLinks(ss), ss, "midSpreadsheet")
      [] name = "template:result_spreadsheet_link" ->
            linkCheck(getEstimateTemplateLinks(ss), ss, "resultSpreadsheet")
      [] name = "po_members:columns" -> loaderCheck(getPoGroupMembers(ss), ss)
      [] name = "po_members:nonempty:displayNames" ->
            nonemptyCheck(getPoGroupMembers(ss), ss, "displayNames")
      [] name = "po_members:nonempty:emails" ->
            nonemptyCheck(getPoGroupMembers(ss), ss, "emails")
      [] name = "estimate_history:addRow" ->
            addRowCheck(addEstimateHistoryTopRow(ss, TestHistoryRow, fail))
      [] name = "estimate_required_members:columns" ->
            loaderCheck(loadEstimateRequiredMembers(ss), ss)
      [] name = "estimate_issue_list:columns" ->
            loaderCheck(getEstimateIssueList(ss), ss)
      [] name = "estimate_deadline:columns" ->
            loaderCheck(getEstimateDeadlines(ss), ss)
      [] name = "estimate_deadline:length1" ->
            length1Check(getEstimateDeadlines(ss), ss)

\* the TestResult pushed for tc (ms left out); the message is "", the fail
\* message, or the fail message :: the message of the error
resultOf(tc, checked) ==
    [name |-> tc.name,
     ok |-> ~checked.threw /\ checked.ok,
     message |-> IF checked.threw THEN <<tc.failMessage, "::", checked.error>>
                 ELSE IF checked.ok THEN <<>> ELSE <<tc.failMessage>>]

RECURSIVE runSelectedStopAtThrow(_, _, _, _, _)
RECURSIVE ranOneStopAtThrow(_, _, _, _, _, _)
\* the loop that ends at the first check that throws
ranOneStopAtThrow(rest, tc, checked, results, calls, fail) ==
    IF checked.threw
    THEN [results |-> Append(results, resultOf(tc, checked)), ss |-> checked.ss,
          calls |-> calls \o checked.calls]
    ELSE runSelectedStopAtThrow(rest, checked.ss,
                                Append(results, resultOf(tc, checked)),
                                calls \o checked.calls, fail)
runSelectedStopAtThrow(selected, ss, results, calls, fail) ==
    IF selected = <<>> THEN [results |-> results, ss |-> ss, calls |-> calls]
    ELSE ranOneStopAtThrow(Tail(selected), Head(selected),
                           check(Head(selected).name, ss, fail),
                           results, calls, fail)

RECURSIVE runSelected(_, _, _, _, _)
\* the body of the loop for tc once its check has run
ranOne(rest, tc, checked, results, calls, fail) ==
    runSelected(rest, checked.ss, Append(results, resultOf(tc, checked)),
                calls \o checked.calls, fail)
\* for (const tc of selected) { try { ... } catch (err) { ... } }
runSelected(selected, ss, results, calls, fail) ==
    IF selected = <<>> THEN [results |-> results, ss |-> ss, calls |-> calls]
    ELSE ranOne(Tail(selected), Head(selected),
                check(Head(selected).name, ss, fail), results, calls, fail)

\* names.includes(name)
includes(names, name) == \E k \in 1..Len(names) : names[k] = name

\* selected: the registered tests whose name is asked for, or all of them
\* when names is undefined or empty
selectedTests(names) ==
    IF names # Undefined /\ Len(Val(names)) # 0
    THEN SelectSeq(tests, LAMBDA t : includes(Val(names), t.name))
    ELSE tests

\* unknown: the asked names that no selected test carries (logged)
unknownNames(names) ==
    IF names # Undefined /\ Len(Val(names)) # 0
    THEN SelectSeq(Val(names),
                   LAMBDA n : \A k \in 1..Len(tests) : tests[k].name # n)
    ELSE <<>>

\* the summary logged after the loop
summaryOf(results) ==
    [total |-> Len(results),
     pass |-> Len(SelectSeq(results, LAMBDA r : r.ok)),
     fail |-> Len(results) - Len(SelectSeq(results, LAMBDA r : r.ok))]

\* runTestsCore from the end of the loop on
testsRun(names, run) ==
    [results |-> run.results, summary |-> summaryOf(run.results),
     unknown |-> unknownNames(names), ss |-> run.ss, calls |-> run.calls]

\* runTestsCore({ names }) on the active spreadsheet ss
runTestsCore(ss, names, fail) ==
    testsRun(names, runSelected(selectedTests(names), ss, <<>>, <<>>, fail))

\* the names testCore asks for, with the test that adds a row among them
testCoreNamesWithAddRow ==
    <<"sample:true", "sample:sum", "template:required_keys",
      "template:google_form_link", "template:mid_spreadsheet_link",
      "template:result_spreadsheet_link", "po_members:columns",
      "po_members:nonempty:displayNames", "po_members:nonempty:emails",
      "estimate_history:addRow",
      "estimate_deadline:columns", "estimate_deadline:length1",
      "estimate_required_members:columns", "estimate_issue_list:columns">>

\* the names testCore asks for
testCoreNames ==
    <<"sample:true", "sample:sum", "template:required_keys",
      "template:google_form_link", "template:mid_spreadsheet_link",
      "template:result_spreadsheet_link", "po_members:columns",
      "po_members:nonempty:displayNames", "po_members:nonempty:emails",
      "estimate_deadline:columns", "estimate_deadline:length1",
      "estimate_required_members:columns", "estimate_issue_list:columns">>

\* testCore() = runTestsByNames([...]) = runTestsCore({ names: [...] })
testCore(ss, fail) == runTestsCore(ss, Def(testCoreNames), fail)

----------------------------------------------------------------------------
(* Initial spreadsheets *)

\* a row with the given cells in the columns startCol+1.. and blanks elsewhere
rowAt(startCol, cells) ==
    [c \in 1..SheetCols |->
        IF c - startCol \in 1..Len(cells) THEN Txt(cells[c - startCol]) ELSE BlankCell]

rangeOf(startRow, endRow, startCol, endCol) ==
    [startRowIndex |-> Def(startRow), endRowIndex |-> Def(endRow),
     startColumnIndex |-> Def(startCol), endColumnIndex |-> Def(endCol)]

\* text of the i-th old data row of a table
oldText(i) == <<"old">> \o [k \in 1..i |-> "#"]

MembersHeaderKinds == {"std", "perm", "padded", "missing", "blank", "notable"}

membersHeader(kind) ==
    LET h == membersTable.headers
    IN  CASE kind = "perm" ->
                <<h.responseStatus, h.email, h.displayName, h.responseRequired>>
          [] kind = "padded" ->
                <<<<" ">> \o h.displayName, h.email \o <<" ", " ">>,
                  h.responseRequired, <<" ">> \o h.responseStatus \o <<" ">>>>
          [] kind = "missing" ->
                <<h.displayName, h.email, h.responseRequired, <<"note">>>>
          [] kind = "blank" -> <<<<>>, <<>>, <<>>, <<>>>>
          [] kind = "wide" ->
                <<h.displayName, <<"note">>, h.email, h.responseRequired,
                  h.responseStatus>>
          [] OTHER ->
                <<h.displayName, h.email, h.responseRequired, h.responseStatus>>

\* data rows of the Members table: "old" rows carry text, "blank" rows none
DataKinds == {"old", "blank"}
DataRowSeqs == UNION {[1..n -> DataKinds] : n \in 0..MaxRows}

\* The intermediate spreadsheet: one sheet with `pre` rows of text, the
\* Members table (one column per header cell, from column startCol), what
\* follows it (a later table, or nothing) and one empty last row.
TargetSpreadsheet(pre, startCol, headerKind, data, below) ==
    LET C == Len(data)
        width == Len(membersHeader(headerKind))
        top == [i \in 1..pre |-> rowAt(0, [c \in 1..SheetCols |-> <<"above">>])]
        head == <<rowAt(startCol, membersHeader(headerKind))>>
        body == [i \in 1..C |->
                    IF data[i] = "old"
                    THEN rowAt(startCol, [c \in 1..width |-> oldText(i)])
                    ELSE BlankRow]
        later == IF below = "table"
                 THEN <<rowAt(startCol, <<<<"title">>, <<"URL">>>>),
                        rowAt(startCol, <<<<"issue">>, <<"http://issue">>>>)>>
                 ELSE <<>>
        members == [name |-> IF headerKind = "notable" THEN "Other" ELSE "Members",
                    tableId |-> "t1",
                    range |-> rangeOf(pre, pre + 1 + C, startCol, startCol + width)]
        summary == [name |-> "Summary", tableId |-> "t2",
                    range |-> rangeOf(pre + 1 + C, pre + 3 + C, startCol, startCol + 2)]
    IN  [sheets |-> <<
            [properties |-> [sheetId |-> 7, title |-> "mid"],
             tables |-> IF below = "table" THEN <<members, summary>> ELSE <<members>>,
             grid |-> top \o head \o body \o later \o <<BlankRow>>]>>]

\* rows of the source table of required members
SourceKinds == {"A", "B", "bad", "blank"}
sourceRow(kind) ==
    CASE kind = "A" -> <<<<"Alice">>, <<"alice@x">>, Necessary>>
      [] kind = "B" -> <<<<" ", "Bob">>, <<"bob@x", " ">>, Unnecessary>>
      [] kind = "bad" -> <<<<"Carol">>, <<"carol@x">>, <<"maybe">>>>
      [] OTHER -> <<<<>>, <<>>, <<>>>>
SourceRowSeqs == UNION {[1..n -> SourceKinds] : n \in 0..MaxMembers}
\* sources whose rows are all valid: n = 0..MaxMembers records
ValidSourceRowSeqs ==
    {[i \in 1..n |-> IF i % 2 = 1 THEN "A" ELSE "B"] : n \in 0..MaxMembers}

HistoryHeaderKinds == {"std", "padded", "missing", "lowercase", "blank", "notable"}
historyHeader(kind) ==
    LET h == estimateHistoryTable.headers
    IN  CASE kind = "padded" ->
                <<h.mid \o <<" ">>, <<" ">> \o h.date, h.result, h.form>>
          [] kind = "missing" -> <<h.date, h.mid, h.form, <<"note">>>>
          [] kind = "lowercase" -> <<h.date, h.mid, <<"google form">>, h.result>>
          [] kind = "blank" -> <<<<>>, <<>>, <<>>, <<>>>>
          [] OTHER -> <<h.date, h.mid, h.form, h.result>>

\* The active spreadsheet: one sheet with the table of required members
\* (3 columns from column 1), an empty row, the history table (4 columns
\* from column 1) with `hist` old rows, an empty row, the issue list table
\* (2 columns from column 1) with one row, and one empty last row.
ActiveSpreadsheet(source, sourceNamed, historyKind, hist) ==
    LET R == Len(source)
        srcHead == <<rowAt(1, <<estimateRequiredMembersTable.headers.displayName,
                                estimateRequiredMembersTable.headers.email,
                                estimateRequiredMembersTable.headers.responseRequired>>)>>
        srcBody == [i \in 1..R |-> rowAt(1, sourceRow(source[i]))]
        histHead == <<rowAt(1, historyHeader(historyKind))>>
        histBody == [i \in 1..hist |-> rowAt(1, [c \in 1..4 |-> oldText(i)])]
        required == [name |-> IF sourceNamed THEN estimateRequiredMembersTable.tableName
                              ELSE "Other",
                     tableId |-> "a1", range |-> rangeOf(0, 1 + R, 1, 4)]
        history == [name |-> IF historyKind = "notable" THEN "Other2"
                             ELSE estimateHistoryTable.tableName,
                    tableId |-> "a2",
                    range |-> rangeOf(R + 2, R + 3 + hist, 1, 5)]
        issueHead == <<rowAt(1, <<estimateIssueListTable.headers.title,
                                  estimateIssueListTable.headers.url>>)>>
        issueBody == <<rowAt(1, <<<<"issue">>, <<"http://issue">>>>)>>
        issues == [name |-> estimateIssueListTable.tableName, tableId |-> "a3",
                   range |-> rangeOf(R + 4 + hist, R + 6 + hist, 1, 3)]
    IN  [sheets |-> <<
            [properties |-> [sheetId |-> 3, title |-> "settings"],
             tables |-> <<required, history, issues>>,
             grid |-> srcHead \o srcBody \o <<BlankRow>> \o histHead \o histBody
                      \o <<BlankRow>> \o issueHead \o issueBody
                      \o <<BlankRow>>]>>]

\* the rows addEstimateHistoryTopRow is called with
HistoryRows ==
    {[date |-> <<"2025-08-30">>,
      midText |-> <<"poker">>, midUrl |-> "https://mid",
      formText |-> <<"poker">>, formUrl |-> "https://form",
      resultText |-> <<"poker", "result">>, resultUrl |-> "https://result"]}

\* the table names getTableMetaByName is asked for
AskedNames ==
    {estimateRequiredMembersTable.tableName, estimateHistoryTable.tableName,
     estimateIssueListTable.tableName, "DoesNotExist"}

NoMeta == {}
InitLast ==
    [op |-> "init", outcome |-> "", calls |-> <<>>, meta |-> NoMeta,
     requiredRows |-> -1, currentDataRows |-> -1,
     loaded |-> FALSE, records |-> <<>>,
     arg |-> "", result |-> Ok(<<>>),
     pre |-> [sheets |-> <<>>], preActive |-> [sheets |-> <<>>],
     afterSame |-> FALSE, afterStopped |-> FALSE,
                listings |-> 0, listedBefore |-> FALSE]

DefaultTarget == TargetSpreadsheet(1, 1, "std", <<"old">>, "table")
DefaultActive == ActiveSpreadsheet(<<"A">>, TRUE, "std", 1)

\* data rows of the Members table when the layout is not what varies
FewDataRowSeqs == {<<>>, <<"old">>}

\* An active spreadsheet whose history table is absent: there
\* addEstimateHistoryTopRow stops at its lookup and changes nothing.
SourceOnlyActive(source, sourceNamed) ==
    ActiveSpreadsheet(source, sourceNamed, "notable", 0)

\* Initial pairs <<target, active>>: the layouts of the target, the headers
\* of the target, the rows of the source table, and the headers of the
\* history table (there, the two procedures interleave in full).
InitLayouts ==
    {<<TargetSpreadsheet(at, at, "std", data, below),
       SourceOnlyActive(source, TRUE)>> :
        at \in 0..1, data \in DataRowSeqs, below \in {"none", "table"},
        source \in ValidSourceRowSeqs}
InitHeaders ==
    {<<TargetSpreadsheet(1, 1, headerKind, data, "table"),
       SourceOnlyActive(<<"A">>, TRUE)>> :
        headerKind \in MembersHeaderKinds, data \in FewDataRowSeqs}
InitSources ==
    {<<DefaultTarget, SourceOnlyActive(source, TRUE)>> : source \in SourceRowSeqs}
    \cup {<<DefaultTarget, SourceOnlyActive(<<"A">>, FALSE)>>}
InitHistories ==
    {<<DefaultTarget, ActiveSpreadsheet(<<"A">>, TRUE, historyKind, hist)>> :
        historyKind \in HistoryHeaderKinds, hist \in 0..1}
\* two tables of one name: in the target the table below the Members table
\* is named as it, in the active spreadsheet the issue list table is named
\* as the table of required members
DuplicateTarget ==
    [DefaultTarget EXCEPT !.sheets[1].tables[2].name = membersTable.tableName]
DuplicateActive ==
    [SourceOnlyActive(<<"A">>, TRUE) EXCEPT
        !.sheets[1].tables[3].name = estimateRequiredMembersTable.tableName]
InitDuplicates ==
    {<<DuplicateTarget, SourceOnlyActive(<<"A">>, TRUE)>>,
     <<DefaultTarget, DuplicateActive>>}
\* a Members table with a column the member records do not fill
InitWide ==
    {<<TargetSpreadsheet(1, 0, "wide", data, "table"),
       SourceOnlyActive(source, TRUE)>> :
        data \in FewDataRowSeqs, source \in ValidSourceRowSeqs}

\* no function is examined on its own
NoArg == [fn |-> "none"]

Init ==
    /\ _estimateRequiredMembersCache = Undefined
    /\ OtherCachesUnset
    /\ last = InitLast
    /\ failures = 0
    /\ adds = 0
    /\ a1in = [gr |-> rangeOf(0, 1, 0, 1), sheetTitle |-> "mid"]
    /\ a1out = <<>>
    /\ arg = NoArg
    /\ ret = <<>>
    /\ firstIndex = {}
    /\ \E pair \in InitLayouts \cup InitHeaders \cup InitSources \cup InitHistories
                    \cup InitWide \cup InitDuplicates :
        /\ target = pair[1]
        /\ active = pair[2]

----------------------------------------------------------------------------
(* Calls of the script *)

\* whether the call recorded in l was a run of updateMembersTable that succeeded
succeeded(l) == l.op = "updateMembersTable" /\ l.outcome = "ok"

\* whether the call recorded in l was a run of updateMembersTable that ended
\* at its delete, rejected, after its insert was carried out
stoppedAfterInsert(l) ==
    /\ l.op = "updateMembersTable"
    /\ l.outcome = "batchUpdate rejected"
    /\ Len(l.calls) = 2
    /\ l.calls[2].op = "deleteDimension"

\* the index after an operation that called getTablesIndex() `listings` times
Listed(listings) ==
    firstIndex' = IF listings > 0 /\ firstIndex = {}
                  THEN {getTablesIndex(active)} ELSE firstIndex

\* the state after a run of updateMembersTable
MembersRan(loaded, ran, listings) ==
    /\ Listed(listings)
    /\ target' = ran.ss
    /\ _estimateRequiredMembersCache' =
           IF loaded.threw THEN _estimateRequiredMembersCache ELSE {loaded.value}
    /\ failures' = IF ran.outcome = "batchUpdate rejected"
                   THEN failures + 1 ELSE failures
    /\ last' = [op |-> "updateMembersTable", outcome |-> ran.outcome,
                calls |-> ran.calls, meta |-> ran.meta,
                requiredRows |-> ran.requiredRows,
                currentDataRows |-> ran.currentDataRows,
                loaded |-> ~loaded.threw,
                records |-> IF loaded.threw THEN <<>> ELSE loaded.value,
                arg |-> "", result |-> Ok(<<>>),
                pre |-> target, preActive |-> active,
                afterSame |-> succeeded(last),
                afterStopped |-> stoppedAfterInsert(last),
                listings |-> listings, listedBefore |-> firstIndex # {}]

\* getEstimateRequiredMembers looks its table up unless the URL was
\* rejected before or the rows are cached
MembersLoaded(urlOk, fail, loaded) ==
    MembersRan(loaded, updateMembersTable(target, urlOk, loaded, fail),
               IF urlOk /\ _estimateRequiredMembersCache = Undefined THEN 1 ELSE 0)

\* updateMembersTable(spreadsheetUrl)
UpdateMembersTable ==
    \E urlOk \in BOOLEAN, fail \in MembersFailPoints :
        /\ (fail # "none") => (urlOk /\ failures < MaxFailures)
        /\ MembersLoaded(urlOk, fail,
               IF urlOk
               THEN getEstimateRequiredMembers(active, _estimateRequiredMembersCache)
               ELSE Throw("not called"))
        /\ UNCHANGED <<active, otherCaches, adds, a1in, a1out, arg, ret>>

\* the state after a run of addEstimateHistoryTopRow
HistoryRan(ran) ==
    /\ Listed(1)
    /\ active' = ran.ss
    /\ adds' = IF ran.calls # <<>> THEN adds + 1 ELSE adds
    /\ failures' = IF ran.outcome = "batchUpdate rejected"
                   THEN failures + 1 ELSE failures
    /\ last' = [op |-> "addEstimateHistoryTopRow", outcome |-> ran.outcome,
                calls |-> ran.calls, meta |-> ran.meta,
                requiredRows |-> ran.requiredRows,
                currentDataRows |-> ran.currentDataRows,
                loaded |-> FALSE, records |-> <<>>,
                arg |-> "", result |-> Ok(<<>>),
                pre |-> target, preActive |-> active,
                afterSame |-> succeeded(last),
                afterStopped |-> stoppedAfterInsert(last),
                listings |-> 1, listedBefore |-> firstIndex # {}]

\* addEstimateHistoryTopRow(row)
AddEstimateHistoryTopRow ==
    \E row \in HistoryRows, fail \in HistoryFailPoints :
        /\ adds < MaxHistoryAdds
        /\ (fail # "none") => (failures < MaxFailures)
        /\ HistoryRan(addEstimateHistoryTopRow(active, row, fail))
        /\ UNCHANGED <<target, _estimateRequiredMembersCache, otherCaches,
                       a1in, a1out,
                       arg, ret>>

\* the state after a call of getTableMetaByName that called
\* getTablesIndex() `listings` times
MetaGot(tableName, got, listings) ==
    /\ Listed(listings)
    /\ last' = [op |-> "getTableMetaByName",
                outcome |-> IF got.threw THEN got.error ELSE "ok",
                calls |-> <<>>, meta |-> NoMeta,
                requiredRows |-> -1, currentDataRows |-> -1,
                loaded |-> FALSE, records |-> <<>>,
                arg |-> tableName, result |-> got,
                pre |-> target, preActive |-> active,
                afterSame |-> succeeded(last),
                afterStopped |-> stoppedAfterInsert(last),
                listings |-> listings, listedBefore |-> firstIndex # {}]

\* the descriptor of the index built first, when there is one
metaOfIndex(idx, tableName) ==
    IF tableName \notin DOMAIN idx THEN Throw("table not found")
    ELSE Ok(idx[tableName])

\* the lookup with an index that is built once and kept
GetTableMetaByNameMemoized ==
    \E tableName \in AskedNames :
        /\ IF firstIndex # {}
           THEN MetaGot(tableName, metaOfIndex(Val(firstIndex), tableName), 0)
           ELSE MetaGot(tableName, getTableMetaByName(active, tableName), 1)
        /\ UNCHANGED <<target, active, _estimateRequiredMembersCache, otherCaches,
                       failures,
                       adds, a1in, a1out, arg, ret>>

\* getTableMetaByName(tableName) on the active spreadsheet: one
\* getTablesIndex() call, then the entry of the name
GetTableMetaByName ==
    \E tableName \in AskedNames :
        /\ MetaGot(tableName, getTableMetaByName(active, tableName), 1)
        /\ UNCHANGED <<target, active, _estimateRequiredMembersCache, otherCaches,
                       failures,
                       adds, a1in, a1out, arg, ret>>

Next == UpdateMembersTable \/ AddEstimateHistoryTopRow \/ GetTableMetaByName

Spec == Init /\ [][Next]_vars

----------------------------------------------------------------------------
(* The loaders with their caches *)

\* a call of a loader: what it returned or threw, the cache it left, and
\* the table listings and cell reads it made
Answered(result, cache, listings, reads) ==
    [result |-> result, cache |-> cache, listings |-> listings, reads |-> reads]

\* a loader that loads on every call and overwrites its cache
memoizedAlwaysLoads(cache, loaded, got) ==
    Answered(loaded, IF loaded.threw THEN cache ELSE {loaded.value}, 1,
             IF got.threw THEN 0 ELSE 1)

\* if (_cache) return _cache; ...; _cache = rows; return rows;
\* cache: the cache variable of the loader; got: its getTableMetaByName
\* call; loaded: what the body past the cache test returns or throws, the
\* assignment to the cache being its last statement before the return
memoized(cache, loaded, got) ==
    IF cache # Undefined THEN Answered(Ok(Val(cache)), cache, 0, 0)
    ELSE Answered(loaded, IF loaded.threw THEN Undefined ELSE {loaded.value}, 1,
                  IF got.threw THEN 0 ELSE 1)

----------------------------------------------------------------------------
(* The record loaders on their own: every table within the bounds *)

LoaderNames ==
    {"getPoGroupMembers", "getEstimateRequiredMembers", "getEstimateIssueList",
     "getEstimateDeadlines"}

\* the header row of the table a loader reads, in a table of three columns
loaderHeader(fn) ==
    CASE fn = "getPoGroupMembers" ->
            <<poGroupMembersTable.headers.displayName,
              poGroupMembersTable.headers.email, <<"note">>>>
      [] fn = "getEstimateRequiredMembers" ->
            <<estimateRequiredMembersTable.headers.displayName,
              estimateRequiredMembersTable.headers.email,
              estimateRequiredMembersTable.headers.responseRequired>>
      [] fn = "getEstimateIssueList" ->
            <<estimateIssueListTable.headers.title,
              estimateIssueListTable.headers.url, <<"note">>>>
      [] OTHER ->
            <<estimateDeadlineTable.headers.dueDate, <<"note">>, <<"note">>>>

\* the data rows a table may hold, as the texts of its three cells
LoadRowKinds ==
    {"full", "invalid", "firstOnly", "secondOnly", "spaces", "blank", "thirdOnly"}
loadRow(kind) ==
    CASE kind = "full" -> <<<<"a">>, <<"a@x">>, Necessary>>
      [] kind = "invalid" -> <<<<"b">>, <<"b@x">>, <<"maybe">>>>
      [] kind = "firstOnly" -> <<<<" ", "c">>, <<>>, <<>>>>
      [] kind = "secondOnly" -> <<<<>>, <<"d@x", " ">>, Unnecessary>>
      [] kind = "spaces" -> <<<<" ">>, <<" ">>, <<>>>>
      [] kind = "thirdOnly" -> <<<<>>, <<>>, Necessary>>
      [] OTHER -> <<<<>>, <<>>, <<>>>>
LoadRowSeqs ==
    UNION {[1..n -> {loadRow(kind) : kind \in LoadRowKinds}] : n \in 0..MaxLoadRows}

\* vr.values || [] for a table of these cells: trailing empty cells of a
\* row and trailing empty rows are omitted
valuesOfCells(cells) ==
    dropTrailingEmpty([i \in 1..Len(cells) |-> dropTrailingEmpty(cells[i])])

InitLoaders ==
    /\ target = DefaultTarget
    /\ active = DefaultActive
    /\ _estimateRequiredMembersCache = Undefined
    /\ OtherCachesUnset
    /\ last = InitLast
    /\ failures = 0
    /\ adds = 0
    /\ a1in = [gr |-> rangeOf(0, 1, 0, 1), sheetTitle |-> "mid"]
    /\ a1out = <<>>
    /\ \E fn \in LoaderNames, rows \in LoadRowSeqs :
        arg = [fn |-> fn, rows |-> rows,
               values |-> valuesOfCells(<<loaderHeader(fn)>> \o rows)]
    /\ ret = <<>>
    /\ firstIndex = {}

\* the state after a loader returned or threw
Loaded(fn, result) ==
    /\ arg.fn = fn
    /\ ret = <<>>
    /\ ret' = <<result>>
    /\ UNCHANGED <<target, active, _estimateRequiredMembersCache, otherCaches,
                   last, failures,
                   adds, a1in, a1out, arg, firstIndex>>

\* getPoGroupMembers() on the values read
GetPoGroupMembers == Loaded("getPoGroupMembers", poGroupMembersRead(arg.values))

\* getEstimateRequiredMembers() on the values read
GetEstimateRequiredMembers ==
    Loaded("getEstimateRequiredMembers", requiredMembersRead(arg.values))

\* getEstimateIssueList() on the values read
GetEstimateIssueList == Loaded("getEstimateIssueList", issueListRead(arg.values))

\* getEstimateDeadlines() on the values read
GetEstimateDeadlines == Loaded("getEstimateDeadlines", deadlinesRead(arg.values))

NextLoaders ==
    \/ GetPoGroupMembers
    \/ GetEstimateRequiredMembers
    \/ GetEstimateIssueList
    \/ GetEstimateDeadlines

SpecLoaders == InitLoaders /\ [][NextLoaders]_vars

----------------------------------------------------------------------------
(* addFormResponsesDummyRow on its own: the response spreadsheets within   *)
(* the bounds                                                               *)

FormHeaderKinds == {"std", "padded", "missing", "blank", "notable"}
formHeader(kind) ==
    LET h == formResponsesTable.headers
    IN  CASE kind = "padded" ->
                <<h.timestamp, <<" ">> \o h.email \o <<" ">>, h.premise, h.estimate>>
          [] kind = "missing" -> <<h.timestamp, <<"note">>, h.premise, h.estimate>>
          [] kind = "blank" -> <<<<>>, <<>>, <<>>, <<>>>>
          [] OTHER -> <<h.timestamp, h.email, h.premise, h.estimate>>

\* a bound as the table listing gives it: a bound of value 0 may be left
\* out of the response
listedBound(n, omitZero) == IF n = 0 /\ omitZero THEN Undefined ELSE Def(n)

\* The response spreadsheet: one sheet with `pre` rows of text, the
\* Form_Responses table (4 columns from column 0) with `answers` rows, and
\* two empty last rows.
FormSpreadsheet(pre, headerKind, answers, omitZero) ==
    [sheets |-> <<
        [properties |-> [sheetId |-> 9, title |-> "responses"],
         tables |-> <<[name |-> IF headerKind = "notable" THEN "Other"
                                ELSE formResponsesTable.tableName,
                       tableId |-> "f1",
                       range |-> [startRowIndex |-> listedBound(pre, omitZero),
                                  endRowIndex |-> Def(pre + 1 + answers),
                                  startColumnIndex |-> listedBound(0, omitZero),
                                  endColumnIndex |-> Def(4)]]>>,
         grid |-> [i \in 1..pre |-> rowAt(0, [c \in 1..SheetCols |-> <<"above">>])]
                  \o <<rowAt(0, formHeader(headerKind))>>
                  \o [i \in 1..answers |-> rowAt(0, [c \in 1..4 |-> oldText(i)])]
                  \o <<BlankRow, BlankRow>>]>>]

InitForm ==
    /\ \E pre \in 0..1, headerKind \in FormHeaderKinds, answers \in 0..MaxRows,
          omitZero \in BOOLEAN :
        target = FormSpreadsheet(pre, headerKind, answers, omitZero)
    /\ active = DefaultActive
    /\ _estimateRequiredMembersCache = Undefined
    /\ OtherCachesUnset
    /\ last = InitLast
    /\ failures = 0
    /\ adds = 0
    /\ a1in = [gr |-> rangeOf(0, 1, 0, 1), sheetTitle |-> "mid"]
    /\ a1out = <<>>
    /\ arg = NoArg
    /\ ret = <<>>
    /\ firstIndex = {}

\* the state after a run of addFormResponsesDummyRow
FormRan(ran) ==
    /\ target' = ran.ss
    /\ failures' = IF ran.outcome = "batchUpdate rejected"
                   THEN failures + 1 ELSE failures
    /\ last' = [op |-> "addFormResponsesDummyRow", outcome |-> ran.outcome,
                calls |-> ran.calls, meta |-> ran.meta,
                requiredRows |-> ran.requiredRows,
                currentDataRows |-> ran.currentDataRows,
                loaded |-> FALSE, records |-> <<>>,
                arg |-> "", result |-> Ok(<<>>),
                pre |-> target, preActive |-> active,
                afterSame |-> FALSE, afterStopped |-> FALSE,
                listings |-> 0, listedBefore |-> FALSE]

\* addFormResponsesDummyRow(spreadsheetUrl)
AddFormResponsesDummyRow ==
    \E urlOk \in BOOLEAN, fail \in FormFailPoints :
        /\ (fail # "none") => (urlOk /\ failures < MaxFailures)
        /\ FormRan(addFormResponsesDummyRow(target, urlOk, fail))
        /\ UNCHANGED <<active, _estimateRequiredMembersCache, otherCaches,
                       adds, a1in, a1out,
                       arg, ret, firstIndex>>

NextForm == AddFormResponsesDummyRow

SpecForm == InitForm /\ [][NextForm]_vars

----------------------------------------------------------------------------
(* The test runner on its own: the settings spreadsheets within the bounds *)

RECURSIVE stacked(_, _)
\* tables one below the other from row `top`, an empty row after each one;
\* a table is given by its name, its id and its rows, the header first
stacked(specs, top) ==
    IF specs = <<>> THEN [tables |-> <<>>, grid |-> <<BlankRow>>]
    ELSE [tables |->
              <<[name |-> Head(specs).name, tableId |-> Head(specs).tableId,
                 range |-> rangeOf(top, top + Len(Head(specs).rows), 0,
                                   Len(Head(specs).rows[1]))]>>
              \o stacked(Tail(specs), top + Len(Head(specs).rows) + 1).tables,
          grid |->
              [i \in 1..Len(Head(specs).rows) |-> rowAt(0, Head(specs).rows[i])]
              \o <<BlankRow>>
              \o stacked(Tail(specs), top + Len(Head(specs).rows) + 1).grid]

TemplateKinds == {"ok", "noForm", "absent"}
PoKinds == {"ok", "namesOnly", "absent"}
TestHistoryKinds == {"std", "missing"}
IssueKinds == {"ok", "badheader"}

\* The settings spreadsheet the tests read: the template table, the PO
\* members, the history (one old row), the required members, the issue list
\* and the deadlines, one below the other on one sheet.
SettingsSpreadsheet(templateKind, poKind, historyKind, issueKind, deadlines) ==
    [sheets |-> <<
        [properties |-> [sheetId |-> 3, title |-> "settings"]]
        @@ stacked(
            <<[name |-> IF templateKind = "absent" THEN "Other1"
                        ELSE estimateTemplatesTable.tableName,
               tableId |-> "s1",
               rows |-> <<<<estimateTemplatesTable.headers.name,
                            estimateTemplatesTable.headers.link>>,
                          <<GoogleForm,
                            IF templateKind = "noForm" THEN <<>> ELSE <<"http://form">>>>,
                          <<MidSpreadsheet, <<"http://mid">>>>,
                          <<<<" ">> \o ResultSpreadsheet, <<"http://result">>>>>>],
              [name |-> IF poKind = "absent" THEN "Other2"
                        ELSE poGroupMembersTable.tableName,
               tableId |-> "s2",
               rows |-> <<<<poGroupMembersTable.headers.displayName,
                            poGroupMembersTable.headers.email>>,
                          <<<<"Pat">>,
                            IF poKind = "namesOnly" THEN <<>> ELSE <<"pat@x">>>>>>],
              [name |-> estimateHistoryTable.tableName, tableId |-> "s3",
               rows |-> <<historyHeader(historyKind), [c \in 1..4 |-> oldText(1)]>>],
              [name |-> estimateRequiredMembersTable.tableName, tableId |-> "s4",
               rows |-> <<<<estimateRequiredMembersTable.headers.displayName,
                            estimateRequiredMembersTable.headers.email,
                            estimateRequiredMembersTable.headers.responseRequired>>,
                          sourceRow("A")>>],
              [name |-> estimateIssueListTable.tableName, tableId |-> "s5",
               rows |-> <<<<estimateIssueListTable.headers.title,
                            IF issueKind = "badheader" THEN <<"link">>
                            ELSE estimateIssueListTable.headers.url>>,
                          <<<<"issue">>, <<"http://issue">>>>>>],
              [name |-> estimateDeadlineTable.tableName, tableId |-> "s6",
               rows |-> <<<<estimateDeadlineTable.headers.dueDate>>>>
                        \o [i \in 1..deadlines |-> <<<<"2025-09-05">>>>]]>>,
            0)>>]

\* the inputs runTestsCore is called with: no names, an empty list, lists
\* with registered, repeated and unregistered names
NamesInputs ==
    {Undefined, Def(<<>>),
     Def(<<"sample:sum", "sample:true">>),
     Def(<<"nope">>),
     Def(<<"estimate_deadline:length1", "nope", "po_members:nonempty:emails",
           "estimate_deadline:length1">>),
     Def(<<"estimate_issue_list:columns", "estimate_history:addRow">>)}

InitTests ==
    /\ target = DefaultTarget
    /\ \E templateKind \in TemplateKinds, poKind \in PoKinds,
          historyKind \in TestHistoryKinds, issueKind \in IssueKinds,
          deadlines \in 0..MaxDeadlineRows :
        active = SettingsSpreadsheet(templateKind, poKind, historyKind, issueKind,
                                     deadlines)
    /\ _estimateRequiredMembersCache = Undefined
    /\ OtherCachesUnset
    /\ last = InitLast
    /\ failures = 0
    /\ adds = 0
    /\ a1in = [gr |-> rangeOf(0, 1, 0, 1), sheetTitle |-> "mid"]
    /\ a1out = <<>>
    /\ arg \in {[fn |-> "runTestsCore", names |-> names] : names \in NamesInputs}
              \cup {[fn |-> "testCore", names |-> Def(testCoreNames)]}
    /\ ret = <<>>
    /\ firstIndex = {}

\* whether the results hold a passed test of that name
passed(results, name) ==
    \E k \in 1..Len(results) : results[k].name = name /\ results[k].ok

\* the table a registered test loads, by the prefix of its name
loadedBy(name) ==
    CASE name \in {"template:required_keys", "template:google_form_link",
                   "template:mid_spreadsheet_link",
                   "template:result_spreadsheet_link"} -> "template:"
      [] name \in {"po_members:columns", "po_members:nonempty:displayNames",
                   "po_members:nonempty:emails"} -> "po_members:"
      [] name = "estimate_issue_list:columns" -> "estimate_issue_list:"
      [] name \in {"estimate_deadline:columns", "estimate_deadline:length1"} ->
            "estimate_deadline:"
      [] OTHER -> ""

\* a cache that was unset, after a run of tests: set when a test of the
\* prefix ran and the loader returned
cacheAfterTests(results, prefix, loaded) ==
    IF /\ \E k \in 1..Len(results) : loadedBy(results[k].name) = prefix
       /\ ~loaded.threw
    THEN {loaded.value} ELSE {}

\* the state after runTestsCore returned
TestsRan(fn, run) ==
    /\ ret = <<>>
    /\ ret' = <<[results |-> run.results, summary |-> run.summary,
                 unknown |-> run.unknown]>>
    /\ active' = run.ss
    /\ _estimateRequiredMembersCache' =
           IF passed(run.results, "estimate_required_members:columns")
           THEN {loadEstimateRequiredMembers(run.ss).value}
           ELSE _estimateRequiredMembersCache
    /\ _estimateTemplateCache' =
           cacheAfterTests(run.results, "template:", getEstimateTemplateLinks(active))
    /\ _poMembersCache' =
           cacheAfterTests(run.results, "po_members:", getPoGroupMembers(active))
    /\ _estimateIssueListCache' =
           cacheAfterTests(run.results, "estimate_issue_list:",
                           getEstimateIssueList(active))
    /\ _estimateDeadlineCache' =
           cacheAfterTests(run.results, "estimate_deadline:",
                           getEstimateDeadlines(active))
    /\ failures' = IF \E k \in 1..Len(run.results) :
                          /\ ~run.results[k].ok
                          /\ includes(run.results[k].message, "batchUpdate rejected")
                   THEN failures + 1 ELSE failures
    /\ adds' = IF run.calls # <<>> THEN adds + 1 ELSE adds
    /\ last' = [op |-> fn, outcome |-> "ok",
                calls |-> run.calls, meta |-> NoMeta,
                requiredRows |-> -1, currentDataRows |-> -1,
                loaded |-> FALSE, records |-> <<>>,
                arg |-> "", result |-> Ok(<<>>),
                pre |-> target, preActive |-> active,
                afterSame |-> FALSE, afterStopped |-> FALSE,
                listings |-> 0, listedBefore |-> FALSE]
    /\ UNCHANGED <<target, a1in, a1out, arg, firstIndex>>

\* runTestsCore(input)
RunTestsCore ==
    \E fail \in HistoryFailPoints :
        /\ arg.fn = "runTestsCore"
        /\ (fail # "none") =>
               /\ arg.names # Undefined
               /\ includes(Val(arg.names), "estimate_history:addRow")
        /\ TestsRan("runTestsCore", runTestsCore(active, arg.names, fail))

\* testCore()
TestCore ==
    \E fail \in HistoryFailPoints :
        /\ arg.fn = "testCore"
        /\ fail = "none" \/ includes(testCoreNames, "estimate_history:addRow")
        /\ TestsRan("testCore", testCore(active, fail))

NextTests == RunTestsCore \/ TestCore

SpecTests == InitTests /\ [][NextTests]_vars

----------------------------------------------------------------------------
(* The column encoder on its own: every column index within the bound *)

InitCol ==
    /\ target = DefaultTarget
    /\ active = DefaultActive
    /\ _estimateRequiredMembersCache = Undefined
    /\ OtherCachesUnset
    /\ last = InitLast
    /\ failures = 0
    /\ adds = 0
    /\ a1in = [gr |-> rangeOf(0, 1, 0, 1), sheetTitle |-> "mid"]
    /\ a1out = <<>>
    /\ \E zero \in 0..MaxColumn : arg = [fn |-> "toColA1", zero |-> zero]
    /\ ret = <<>>
    /\ firstIndex = {}

\* toColA1(zero)
ToColA1 ==
    /\ arg.fn = "toColA1"
    /\ ret = <<>>
    /\ ret' = <<toColA1(arg.zero)>>
    /\ UNCHANGED <<target, active, _estimateRequiredMembersCache, otherCaches,
                   last, failures,
                   adds, a1in, a1out, arg, firstIndex>>

NextCol == ToColA1

SpecCol == InitCol /\ [][NextCol]_vars

----------------------------------------------------------------------------
(* The address converter on its own: every GridRange within the bounds *)

OptionalRows == {Undefined} \cup {Def(n) : n \in 0..MaxRowIndex}
OptionalCols == {Undefined} \cup {Def(n) : n \in 0..MaxColIndex}
GridRanges ==
    [startRowIndex : OptionalRows, endRowIndex : OptionalRows,
     startColumnIndex : OptionalCols, endColumnIndex : OptionalCols]

InitA1 ==
    /\ target = DefaultTarget
    /\ active = DefaultActive
    /\ _estimateRequiredMembersCache = Undefined
    /\ OtherCachesUnset
    /\ last = InitLast
    /\ failures = 0
    /\ adds = 0
    /\ a1in \in [gr : GridRanges, sheetTitle : {"mid", "settings"}]
    /\ a1out = <<>>
    /\ arg = NoArg
    /\ ret = <<>>
    /\ firstIndex = {}

\* gridRangeToA1(gr, sheetTitle): the function has no throw statement, so
\* every call returns the address it built
GridRangeToA1 ==
    /\ a1out = <<>>
    /\ a1out' = <<Ok(gridRangeToA1(a1in.gr, a1in.sheetTitle))>>
    /\ UNCHANGED <<target, active, _estimateRequiredMembersCache, otherCaches,
                   last, failures,
                   adds, a1in, arg, ret, firstIndex>>

NextA1 == GridRangeToA1

SpecA1 == InitA1 /\ [][NextA1]_vars

----------------------------------------------------------------------------
(* addEstimateHistoryTopRow on its own: the history tables within the      *)
(* bounds, with text in the cells beside and below the table               *)

\* text of a cell outside the table, in grid row r and column c
sideText(r, c) == <<"side">> \o [k \in 1..r |-> "#"] \o [k \in 1..c |-> "+"]

\* the row with the cells outside the columns startCol+1..startCol+width
\* filled with text
withSides(row, r, startCol, width) ==
    [c \in 1..SheetCols |->
        IF c > startCol /\ c <= startCol + width THEN row[c] ELSE Txt(sideText(r, c))]

\* The settings spreadsheet with the history table only: `pre` rows of text,
\* the history table (4 columns from column startCol) with `hist` old rows, a
\* row of text below it and one empty last row; with `sides`, the cells
\* beside the table carry text as well.
HistorySpreadsheet(pre, startCol, historyKind, hist, sides) ==
    LET rows == [i \in 1..pre |-> rowAt(0, [c \in 1..SheetCols |-> <<"above">>])]
                \o <<rowAt(startCol, historyHeader(historyKind))>>
                \o [i \in 1..hist |-> rowAt(startCol, [c \in 1..4 |-> oldText(i)])]
                \o <<rowAt(0, [c \in 1..SheetCols |-> <<"below">>])>>
    IN  [sheets |-> <<
            [properties |-> [sheetId |-> 3, title |-> "settings"],
             tables |-> <<[name |-> IF historyKind = "notable" THEN "Other2"
                                    ELSE estimateHistoryTable.tableName,
                           tableId |-> "a2",
                           range |-> rangeOf(pre, pre + 1 + hist,
                                             startCol, startCol + 4)]>>,
             grid |-> [r \in 1..Len(rows) |->
                          IF sides THEN withSides(rows[r], r, startCol, 4)
                          ELSE rows[r]]
                      \o <<BlankRow>>]>>]

InitHistory ==
    /\ \E pre \in 0..1, startCol \in 0..(SheetCols - 4),
          historyKind \in HistoryHeaderKinds, hist \in 0..MaxRows,
          sides \in BOOLEAN :
        active = HistorySpreadsheet(pre, startCol, historyKind, hist, sides)
    /\ target = DefaultTarget
    /\ _estimateRequiredMembersCache = Undefined
    /\ OtherCachesUnset
    /\ last = InitLast
    /\ failures = 0
    /\ adds = 0
    /\ a1in = [gr |-> rangeOf(0, 1, 0, 1), sheetTitle |-> "mid"]
    /\ a1out = <<>>
    /\ arg = NoArg
    /\ ret = <<>>
    /\ firstIndex = {}

NextHistory == AddEstimateHistoryTopRow

SpecHistory == InitHistory /\ [][NextHistory]_vars

----------------------------------------------------------------------------
(* createEstimateFromTemplates from the dummy row on, on copies already    *)
(* made: the intermediate spreadsheets and the settings within the bounds  *)

\* one operation of a run: the spreadsheet it was called on as it was when
\* the call began, and what the operation did
createStep(op, pre, ran) == [op |-> op, pre |-> pre, ran |-> ran]

\* whether the operation returned, so that the next statement runs
returned(ran) == ran.outcome \in {"ok", "skipped"}

\* addEstimateHistoryTopRow({date, midText, ...}), the last of the four
createHistory(trace, activeSs, row, fails) ==
    Append(trace,
           createStep("addEstimateHistoryTopRow", activeSs,
                      addEstimateHistoryTopRow(activeSs, row, fails.history)))

afterSummary(trace, mid, activeSs, row, fails, ran) ==
    IF returned(ran)
    THEN createHistory(Append(trace, createStep("updateResultSummaryTable", mid, ran)),
                       activeSs, row, fails)
    ELSE Append(trace, createStep("updateResultSummaryTable", mid, ran))

\* the summary update with the table taken from the listing of the
\* spreadsheet as it was before the run
thenSummaryFromFirstListing(trace, mid, activeSs, row, fails) ==
    afterSummary(trace, mid, activeSs, row, fails,
        IF getEstimateIssueList(activeSs).threw
        THEN Ran(getEstimateIssueList(activeSs).error, mid, <<>>, {}, -1, -1)
        ELSE IF Len(withTitleOrUrl(getEstimateIssueList(activeSs).value)) = 0
        THEN Ran("skipped", mid, <<>>, {}, 0, -1)
        ELSE summaryFound(mid, activeSs,
                          withTitleOrUrl(getEstimateIssueList(activeSs).value),
                          fails.summary,
                          findTableByName(trace[1].pre.sheets,
                                          resultSummaryTable.tableName)))

\* updateResultSummaryTable(midUrl), the third of the four
thenSummary(trace, mid, activeSs, row, fails) ==
    afterSummary(trace, mid, activeSs, row, fails,
                 updateResultSummaryTable(mid, activeSs, TRUE,
                                          getEstimateIssueList(activeSs),
                                          fails.summary))

afterMembers(trace, mid, activeSs, row, fails, ran) ==
    IF returned(ran)
    THEN thenSummary(Append(trace, createStep("updateMembersTable", mid, ran)),
                     ran.ss, activeSs, row, fails)
    ELSE Append(trace, createStep("updateMembersTable", mid, ran))

\* updateMembersTable(midUrl), the second of the four
thenMembers(trace, mid, activeSs, row, fails) ==
    afterMembers(trace, mid, activeSs, row, fails,
                 updateMembersTable(mid, TRUE,
                                    getEstimateRequiredMembers(activeSs, Undefined),
                                    fails.members))

afterForm(mid, activeSs, row, fails, ran) ==
    IF returned(ran)
    THEN thenMembers(<<createStep("addFormResponsesDummyRow", mid, ran)>>,
                     ran.ss, activeSs, row, fails)
    ELSE <<createStep("addFormResponsesDummyRow", mid, ran)>>

\* createEstimateFromTemplates from addFormResponsesDummyRow(midUrl) to
\* addEstimateHistoryTopRow(...): the operations in program order, each on
\* the spreadsheet the earlier ones left; an operation that throws ends the run
createEstimateFromTemplates(mid, activeSs, row, fails) ==
    afterForm(mid, activeSs, row, fails,
              addFormResponsesDummyRow(mid, TRUE, fails.form))

\* the spreadsheet after the steps of a run that were made on it
RECURSIVE leftBy(_, _, _)
leftBy(trace, onActive, ss) ==
    IF trace = <<>> THEN ss
    ELSE leftBy(Tail(trace), onActive,
                IF (Head(trace).op = "addEstimateHistoryTopRow") = onActive
                THEN Head(trace).ran.ss ELSE ss)

\* the rejections a run may meet: none, or one call of one operation
NoFails == [form |-> "none", members |-> "none", summary |-> "none",
            history |-> "none"]
CreateFails ==
    {NoFails}
    \cup {[NoFails EXCEPT !.form = f] : f \in FormFailPoints \ {"none"}}
    \cup {[NoFails EXCEPT !.members = f] : f \in MembersFailPoints \ {"none"}}
    \cup {[NoFails EXCEPT !.summary = f] : f \in SummaryFailPoints \ {"none"}}
    \cup {[NoFails EXCEPT !.history = f] : f \in HistoryFailPoints \ {"none"}}

\* rows of the issue list table
issueRow(i) == <<<<"issue">> \o [k \in 1..i |-> "#"], <<"http://issue">>>>

\* The copied intermediate spreadsheet: Form_Responses with one answer row,
\* the Members table with `data` old rows and the result summary table with
\* `summary` old rows, one below the other on one sheet.
CreatedMid(data, summary) ==
    [sheets |-> <<
        [properties |-> [sheetId |-> 7, title |-> "mid"]]
        @@ stacked(
            <<[name |-> formResponsesTable.tableName, tableId |-> "f1",
               rows |-> <<formHeader("std"), [c \in 1..4 |-> oldText(1)]>>],
              [name |-> membersTable.tableName, tableId |-> "t1",
               rows |-> <<membersHeader("std")>>
                        \o [i \in 1..data |-> [c \in 1..4 |-> oldText(i)]]],
              [name |-> resultSummaryTable.tableName, tableId |-> "t2",
               rows |-> <<<<resultSummaryTable.headers.id,
                            resultSummaryTable.headers.estimateTarget,
                            resultSummaryTable.headers.status>>>>
                        \o [i \in 1..summary |-> [c \in 1..3 |-> oldText(i)]]]>>,
            0)>>]

\* The settings spreadsheet of a run: the required members, the history
\* with one old row and the issue list, one below the other on one sheet.
CreatedActive(members, issues) ==
    [sheets |-> <<
        [properties |-> [sheetId |-> 3, title |-> "settings"]]
        @@ stacked(
            <<[name |-> estimateRequiredMembersTable.tableName, tableId |-> "a1",
               rows |-> <<<<estimateRequiredMembersTable.headers.displayName,
                            estimateRequiredMembersTable.headers.email,
                            estimateRequiredMembersTable.headers.responseRequired>>>>
                        \o [i \in 1..members |->
                               sourceRow(IF i % 2 = 1 THEN "A" ELSE "B")]],
              [name |-> estimateHistoryTable.tableName, tableId |-> "a2",
               rows |-> <<historyHeader("std"), [c \in 1..4 |-> oldText(1)]>>],
              [name |-> estimateIssueListTable.tableName, tableId |-> "a3",
               rows |-> <<<<estimateIssueListTable.headers.title,
                            estimateIssueListTable.headers.url>>>>
                        \o [i \in 1..issues |-> issueRow(i)]]>>,
            0)>>]

InitCreate ==
    /\ \E data \in 0..MaxRows, summary \in 0..MaxRows :
        target = CreatedMid(data, summary)
    /\ \E members \in 0..MaxMembers, issues \in 0..MaxMembers :
        active = CreatedActive(members, issues)
    /\ _estimateRequiredMembersCache = Undefined
    /\ OtherCachesUnset
    /\ last = InitLast
    /\ failures = 0
    /\ adds = 0
    /\ a1in = [gr |-> rangeOf(0, 1, 0, 1), sheetTitle |-> "mid"]
    /\ a1out = <<>>
    /\ arg = NoArg
    /\ ret = <<>>
    /\ firstIndex = {}

\* the state after a run of createEstimateFromTemplates
Created(trace) ==
    /\ ret' = trace
    /\ target' = leftBy(trace, FALSE, target)
    /\ active' = leftBy(trace, TRUE, active)
    /\ failures' = IF trace[Len(trace)].ran.outcome = "batchUpdate rejected"
                   THEN failures + 1 ELSE failures
    /\ _estimateRequiredMembersCache' =
           IF Len(trace) >= 2 /\ ~loadEstimateRequiredMembers(active).threw
           THEN {loadEstimateRequiredMembers(active).value} ELSE {}
    /\ _estimateIssueListCache' =
           IF Len(trace) >= 3 /\ ~getEstimateIssueList(active).threw
           THEN {getEstimateIssueList(active).value} ELSE {}
    /\ UNCHANGED <<_estimateTemplateCache, _poMembersCache, _estimateDeadlineCache>>
    /\ last' = [InitLast EXCEPT !.op = "createEstimateFromTemplates",
                                !.outcome = trace[Len(trace)].ran.outcome,
                                !.pre = target, !.preActive = active]

\* createEstimateFromTemplates(deadlineDate)
CreateEstimateFromTemplates ==
    \E row \in HistoryRows, fails \in CreateFails :
        /\ ret = <<>>
        /\ Created(createEstimateFromTemplates(target, active, row, fails))
        /\ UNCHANGED <<adds, a1in, a1out, arg, firstIndex>>

NextCreate == CreateEstimateFromTemplates

SpecCreate == InitCreate /\ [][NextCreate]_vars

----------------------------------------------------------------------------
(* getTableHeaderInfo on its own: the tables of the intermediate and of    *)
(* the active spreadsheet within the bounds                                 *)

\* the tables getTableHeaderInfo is called for, each with the spreadsheet
\* its descriptor was listed in
HeaderInputs ==
    {[fn |-> "getTableHeaderInfo", on |-> "mid", tableName |-> n] :
        n \in {formResponsesTable.tableName, membersTable.tableName,
               resultSummaryTable.tableName}}
    \cup
    {[fn |-> "getTableHeaderInfo", on |-> "active", tableName |-> n] :
        n \in {estimateRequiredMembersTable.tableName,
               estimateHistoryTable.tableName, estimateIssueListTable.tableName}}

InitHeader ==
    /\ \E data \in 0..MaxRows, summary \in 0..MaxRows :
        target = CreatedMid(data, summary)
    /\ \E historyKind \in HistoryHeaderKinds \ {"notable"}, hist \in 0..1 :
        active = ActiveSpreadsheet(<<"A">>, TRUE, historyKind, hist)
    /\ _estimateRequiredMembersCache = Undefined
    /\ OtherCachesUnset
    /\ last = InitLast
    /\ failures = 0
    /\ adds = 0
    /\ a1in = [gr |-> rangeOf(0, 1, 0, 1), sheetTitle |-> "mid"]
    /\ a1out = <<>>
    /\ arg \in HeaderInputs
    /\ ret = <<>>
    /\ firstIndex = {}

\* the spreadsheet the table of the call is in
spreadsheetOf(input) == IF input.on = "mid" THEN target ELSE active

\* the rows a caller reads from the range of the table before it asks for
\* the header: Values.get(spreadsheetId, gridRangeToA1(meta.range, title))
rowsOf(ss, meta) ==
    ValuesGet(ss, gridRangeToA1Listed(meta.range, meta.sheetTitle))

\* both calls for one descriptor: with the rows the caller read, and
\* without rows
HeaderGot(ss, meta) ==
    /\ rowsOf(ss, meta) # <<>>
    /\ ret' = <<[meta |-> meta, values |-> rowsOf(ss, meta),
                 prefetched |-> getTableHeaderInfo(active, meta, Def(rowsOf(ss, meta))),
                 unfetched |-> getTableHeaderInfo(active, meta, Undefined)]>>
    /\ last' = [InitLast EXCEPT !.op = "getTableHeaderInfo",
                                !.pre = target, !.preActive = active]

\* getTableHeaderInfo(meta, values) and getTableHeaderInfo(meta); a caller
\* that read no rows throws before it asks for the header
GetTableHeaderInfo ==
    /\ ret = <<>>
    /\ findTableByName(spreadsheetOf(arg).sheets, arg.tableName) # {}
    /\ HeaderGot(spreadsheetOf(arg),
                 Val(findTableByName(spreadsheetOf(arg).sheets, arg.tableName)))
    /\ UNCHANGED <<target, active, _estimateRequiredMembersCache, otherCaches,
                   failures, adds,
                   a1in, a1out, arg, firstIndex>>

NextHeader == GetTableHeaderInfo

SpecHeader == InitHeader /\ [][NextHeader]_vars

----------------------------------------------------------------------------
(* The loaders called again and again in one execution, the settings sheet *)
(* edited in between                                                        *)

\* Number of edits of the settings sheet in one behaviour.
MaxEdits == 1

\* the edits: the text entered in one cell of the first data row of a table
CellEdits ==
    {[tableName |-> estimateTemplatesTable.tableName, column |-> 1,
      text |-> <<"http://form2">>],
     [tableName |-> poGroupMembersTable.tableName, column |-> 1,
      text |-> <<"pat2@x">>],
     [tableName |-> estimateRequiredMembersTable.tableName, column |-> 0,
      text |-> <<"Alicia">>],
     [tableName |-> estimateIssueListTable.tableName, column |-> 0,
      text |-> <<"issue2">>],
     [tableName |-> estimateDeadlineTable.tableName, column |-> 0,
      text |-> <<"2025-09-12">>]}

InitCache ==
    /\ target = DefaultTarget
    /\ \E templateKind \in {"ok", "noForm"}, deadlines \in 0..1 :
        active = SettingsSpreadsheet(templateKind, "ok", "std", "ok", deadlines)
    /\ _estimateRequiredMembersCache = Undefined
    /\ OtherCachesUnset
    /\ last = InitLast
    /\ failures = 0
    /\ adds = 0
    /\ a1in = [gr |-> rangeOf(0, 1, 0, 1), sheetTitle |-> "mid"]
    /\ a1out = <<>>
    /\ arg = NoArg
    /\ ret = <<>>
    /\ firstIndex = {}

\* a user enters a text in a cell of the settings sheet
EditedAt(meta, edit) ==
    active' = ValuesUpdate(active,
                  gridRangeToA1(
                      [startRowIndex |-> Def(Val(meta.range.startRowIndex) + 1),
                       endRowIndex |-> Def(Val(meta.range.startRowIndex) + 2),
                       startColumnIndex |->
                           Def(Val(meta.range.startColumnIndex) + edit.column),
                       endColumnIndex |->
                           Def(Val(meta.range.startColumnIndex) + edit.column + 1)],
                      meta.sheetTitle),
                  <<<<edit.text>>>>)

EditSheet ==
    \E edit \in CellEdits :
        /\ adds < MaxEdits
        /\ adds' = adds + 1
        /\ EditedAt(getTableMetaByName(active, edit.tableName).value, edit)
        /\ UNCHANGED <<target, _estimateRequiredMembersCache, otherCaches, last,
                       failures, a1in, a1out, arg, ret, firstIndex>>

\* the record of a call of a loader: the cache before it and after it, what
\* it returned and the backend calls it made
CalledLoader(fn, cache, answered) ==
    /\ ret' = <<[fn |-> fn, before |-> cache, result |-> answered.result,
                 after |-> answered.cache, listings |-> answered.listings,
                 reads |-> answered.reads]>>
    /\ last' = [InitLast EXCEPT !.op = fn]
    /\ UNCHANGED <<target, active, failures, adds, a1in, a1out, arg, firstIndex>>

\* getEstimateTemplateLinks()
CallGetEstimateTemplateLinks ==
    /\ CalledLoader("getEstimateTemplateLinks", _estimateTemplateCache,
           memoized(_estimateTemplateCache, getEstimateTemplateLinks(active),
                    getTableMetaByName(active, estimateTemplatesTable.tableName)))
    /\ _estimateTemplateCache' =
           memoized(_estimateTemplateCache, getEstimateTemplateLinks(active),
                    getTableMetaByName(active, estimateTemplatesTable.tableName)).cache
    /\ UNCHANGED <<_estimateRequiredMembersCache, _poMembersCache,
                   _estimateIssueListCache, _estimateDeadlineCache>>

\* getPoGroupMembers()
CallGetPoGroupMembers ==
    /\ CalledLoader("getPoGroupMembers", _poMembersCache,
           memoized(_poMembersCache, getPoGroupMembers(active),
                    getTableMetaByName(active, poGroupMembersTable.tableName)))
    /\ _poMembersCache' =
           memoized(_poMembersCache, getPoGroupMembers(active),
                    getTableMetaByName(active, poGroupMembersTable.tableName)).cache
    /\ UNCHANGED <<_estimateRequiredMembersCache, _estimateTemplateCache,
                   _estimateIssueListCache, _estimateDeadlineCache>>

\* getEstimateRequiredMembers()
CallGetEstimateRequiredMembers ==
    /\ CalledLoader("getEstimateRequiredMembers", _estimateRequiredMembersCache,
           memoized(_estimateRequiredMembersCache,
                    loadEstimateRequiredMembers(active),
                    getTableMetaByName(active,
                                       estimateRequiredMembersTable.tableName)))
    /\ _estimateRequiredMembersCache' =
           memoized(_estimateRequiredMembersCache,
                    loadEstimateRequiredMembers(active),
                    getTableMetaByName(active,
                                       estimateRequiredMembersTable.tableName)).cache
    /\ UNCHANGED otherCaches

\* getEstimateIssueList()
CallGetEstimateIssueList ==
    /\ CalledLoader("getEstimateIssueList", _estimateIssueListCache,
           memoized(_estimateIssueListCache, getEstimateIssueList(active),
                    getTableMetaByName(active, estimateIssueListTable.tableName)))
    /\ _estimateIssueListCache' =
           memoized(_estimateIssueListCache, getEstimateIssueList(active),
                    getTableMetaByName(active, estimateIssueListTable.tableName)).cache
    /\ UNCHANGED <<_estimateRequiredMembersCache, _estimateTemplateCache,
                   _poMembersCache, _estimateDeadlineCache>>

\* getEstimateDeadlines()
CallGetEstimateDeadlines ==
    /\ CalledLoader("getEstimateDeadlines", _estimateDeadlineCache,
           memoized(_estimateDeadlineCache, getEstimateDeadlines(active),
                    getTableMetaByName(active, estimateDeadlineTable.tableName)))
    /\ _estimateDeadlineCache' =
           memoized(_estimateDeadlineCache, getEstimateDeadlines(active),
                    getTableMetaByName(active, estimateDeadlineTable.tableName)).cache
    /\ UNCHANGED <<_estimateRequiredMembersCache, _estimateTemplateCache,
                   _poMembersCache, _estimateIssueListCache>>

NextCache ==
    \/ EditSheet
    \/ CallGetEstimateTemplateLinks
    \/ CallGetPoGroupMembers
    \/ CallGetEstimateRequiredMembers
    \/ CallGetEstimateIssueList
    \/ CallGetEstimateDeadlines

SpecCache == InitCache /\ [][NextCache]_vars

----------------------------------------------------------------------------
(* richTextToCell on the RichText values within the bounds; a text is the   *)
(* sequence of its characters                                               *)

\* the most elements of a RichText
MaxElements == 3
\* the most characters of the text of one element
MaxTextLength == 2

\* a text of n characters
textOf(n) == [i \in 1..n |-> "x"]

\* RichTextElement: {type: 'plain', text} | {type: 'link', text, url}
RichTextElements ==
    {[type |-> "plain", text |-> textOf(n)] : n \in 0..MaxTextLength}
    \cup {[type |-> "link", text |-> textOf(n), url |-> url] :
              n \in 0..MaxTextLength, url \in {"http://a", "http://b"}}

\* RichText: { elements: Array<RichTextElement> }
RichTexts ==
    {[elements |-> elements] :
        elements \in UNION {[1..n -> RichTextElements] : n \in 0..MaxElements}}

\* richText.elements.map((p) => p.text).join("")
RECURSIVE joinTexts(_)
joinTexts(elements) ==
    IF elements = <<>> THEN <<>>
    ELSE Head(elements).text \o joinTexts(Tail(elements))

richTextToString(richText) == joinTexts(richText.elements)

\* the body of the loop of richTextToCell for one part: the runs it pushes
runsOfPart(part, index, textLength) ==
    IF part.type = "link" /\ Len(part.text) > 0
    THEN <<[startIndex |-> index, format |-> Def([link |-> [uri |-> part.url]])]>>
         \o (IF index + Len(part.text) < textLength
             THEN <<[startIndex |-> index + Len(part.text), format |-> Undefined]>>
             ELSE <<>>)
    ELSE <<>>

\* for (const part of richText.elements) { ...; index += part.text.length }
RECURSIVE runsFrom(_, _, _)
runsFrom(elements, index, textLength) ==
    IF elements = <<>> THEN <<>>
    ELSE runsOfPart(Head(elements), index, textLength)
         \o runsFrom(Tail(elements), index + Len(Head(elements).text), textLength)

\* richTextToCell(richText): textFormatRuns is set when there are runs
richTextToCell(richText) ==
    [userEnteredValue |-> [stringValue |-> richTextToString(richText)],
     textFormatRuns |->
        IF runsFrom(richText.elements, 0, Len(richTextToString(richText))) = <<>>
        THEN Undefined
        ELSE Def(runsFrom(richText.elements, 0,
                          Len(richTextToString(richText))))]

InitRichText ==
    /\ target = CreatedMid(0, 0)
    /\ active = CreatedActive(0, 0)
    /\ _estimateRequiredMembersCache = Undefined
    /\ OtherCachesUnset
    /\ last = InitLast
    /\ failures = 0
    /\ adds = 0
    /\ a1in = [gr |-> rangeOf(0, 1, 0, 1), sheetTitle |-> "mid"]
    /\ a1out = <<>>
    /\ arg \in RichTexts
    /\ ret = <<>>
    /\ firstIndex = {}

\* richTextToCell(row.requestSlackMessage), richTextToCell(row.completionSlackMessage)
RichTextToCell ==
    /\ ret = <<>>
    /\ ret' = <<richTextToCell(arg)>>
    /\ last' = [InitLast EXCEPT !.op = "richTextToCell"]
    /\ UNCHANGED <<target, active, _estimateRequiredMembersCache, otherCaches,
                   failures, adds, a1in, a1out, arg, firstIndex>>

NextRichText == RichTextToCell

SpecRichText == InitRichText /\ [][NextRichText]_vars

----------------------------------------------------------------------------
(* Observations on spreadsheets, read from the grid and the table list      *)
(* directly                                                                 *)

gridOf(ss, sheetId) == ss.sheets[sheetIndexById(ss, sheetId)].grid
tablesOf(ss, sheetId) == ss.sheets[sheetIndexById(ss, sheetId)].tables

\* the declared range of the table with this id
rangeNow(ss, tableId) ==
    LET ts == UNION {{ss.sheets[k].tables[i] : i \in 1..Len(ss.sheets[k].tables)} :
                        k \in 1..Len(ss.sheets)}
    IN  (CHOOSE t \in ts : t.tableId = tableId).range

\* whether some table of the spreadsheet carries the name
Carried(ss, name) ==
    \E k \in 1..Len(ss.sheets) :
        \E i \in 1..Len(ss.sheets[k].tables) : ss.sheets[k].tables[i].name = name

\* the trimmed cells of row 0 of the table, one per column of its span
headerCells(ss, meta) ==
    [j \in 1..(Val(meta.range.endColumnIndex) - Val(meta.range.startColumnIndex)) |->
        trim(gridOf(ss, meta.sheetId)[Val(meta.range.startRowIndex) + 1]
                                     [Val(meta.range.startColumnIndex) + j].v)]

Present(h, name) == \E j \in 1..Len(h) : h[j] = name

isOld(v) == v # <<>> /\ v[1] = "old"
isBlankRow(row) == \A c \in 1..Len(row) : row[c].v = <<>>

membersRun == last.op = "updateMembersTable"
historyRun == last.op = "addEstimateHistoryTopRow"

----------------------------------------------------------------------------
(* Reconciliation of the Members table *)

RectangleAndRows(meta, N, preGrid, postGrid, postRange) ==
    /\ postRange =
         [meta.range EXCEPT !.endRowIndex = Def(Val(meta.range.startRowIndex) + 1 + N)]
    /\ SubSeq(postGrid, Val(meta.range.startRowIndex) + 1 + N + 1, Len(postGrid))
         = SubSeq(preGrid, Val(meta.range.endRowIndex) + 1, Len(preGrid))

\* C1: after updateMembersTable completed with N >= 1 records, the declared
\* rectangle of the table has its start row and its columns unchanged and
\* endRow = startRow + 1 + N, and the rows that followed the table before
\* the call come directly after the N data rows.
C1_RectangleAndExactlyNRows ==
    (membersRun /\ last.outcome = "ok" /\ last.requiredRows >= 1) =>
        \A meta \in last.meta :
            RectangleAndRows(meta, last.requiredRows,
                             gridOf(last.pre, meta.sheetId),
                             gridOf(target, meta.sheetId),
                             rangeNow(target, meta.tableId))

\* C1, the case: a completed run on a table whose last declared data row
\* is blank, with another table directly below
C1_BlankLastRowRun ==
    /\ membersRun /\ last.outcome = "ok" /\ last.requiredRows >= 1
    /\ \E meta \in last.meta :
        /\ Val(meta.range.endRowIndex) - Val(meta.range.startRowIndex) >= 2
        /\ isBlankRow(gridOf(last.pre, meta.sheetId)[Val(meta.range.endRowIndex)])
        /\ Len(tablesOf(last.pre, meta.sheetId)) = 2

Frame(meta, preGrid, postGrid, preTables, postTables, d) ==
    /\ \A i \in 1..Val(meta.range.startRowIndex) : postGrid[i] = preGrid[i]
    /\ \A i \in (Val(meta.range.endRowIndex) + 1)..Len(preGrid) :
        /\ i + d \in 1..Len(postGrid)
        /\ postGrid[i + d] = preGrid[i]
    /\ Len(postTables) = Len(preTables)
    /\ \A i \in 1..Len(preTables) :
        /\ Val(preTables[i].range.startRowIndex) >= Val(meta.range.endRowIndex) =>
               postTables[i] = [preTables[i] EXCEPT !.range = shiftRange(@, d)]
        /\ Val(preTables[i].range.endRowIndex) <= Val(meta.range.startRowIndex) =>
               postTables[i] = preTables[i]

Readback(meta, records, values, oldHeader, postGrid) ==
    /\ Len(values) = 1 + Len(records)
    /\ headerOf(values) = oldHeader
    /\ \A i \in 1..Len(records) : \A j \in 1..Len(oldHeader) :
        /\ oldHeader[j] = membersTable.headers.displayName =>
               cellOr(values[i + 1], j - 1) = records[i].displayName
        /\ oldHeader[j] = membersTable.headers.email =>
               cellOr(values[i + 1], j - 1) = records[i].email
        /\ oldHeader[j] = membersTable.headers.responseRequired =>
               cellOr(values[i + 1], j - 1) = records[i].responseRequired
    /\ \A r \in (Val(meta.range.startRowIndex) + 2)
                ..(Val(meta.range.startRowIndex) + 1 + Len(records)) :
        \A c \in 1..SheetCols : ~isOld(postGrid[r][c].v)

\* C3: after updateMembersTable completed with R >= 1 records, reading the
\* table back through its new rectangle gives the header and exactly R data
\* rows whose three tracked columns are the records in order; no old data
\* row is inside the table.
C3_ReadbackIsRecords ==
    (membersRun /\ last.outcome = "ok") =>
        \A meta \in last.meta :
            Readback(meta, last.records,
                     ValuesGet(target, gridRangeToA1(rangeNow(target, meta.tableId),
                                                     meta.sheetTitle)),
                     headerCells(last.pre, meta),
                     gridOf(target, meta.sheetId))

\* C3, the case: two records written over a table that held an old row,
\* under a header whose columns are not in the order of the record fields
C3_RecordsOverOldRows ==
    /\ membersRun /\ last.outcome = "ok"
    /\ Len(last.records) >= 1
    /\ \E meta \in last.meta :
        /\ isOld(gridOf(last.pre, meta.sheetId)[Val(meta.range.startRowIndex) + 2]
                                               [Val(meta.range.startColumnIndex) + 1].v)
        /\ headerCells(last.pre, meta)[1] # membersTable.headers.displayName

\* C4 (amended): with an empty record list updateMembersTable returns before
\* it resolves the table: it makes no backend call that changes the
\* spreadsheet, and the sheet and the declared rectangle stay as they were.
C4_EmptyListChangesNothing ==
    (membersRun /\ last.loaded /\ last.records = <<>>) =>
        /\ last.outcome = "skipped"
        /\ last.calls = <<>>
        /\ target = last.pre

\* C4, the case: an empty record list while the table holds an old data row
C4_EmptyListOverOldRows ==
    /\ membersRun /\ last.loaded /\ last.records = <<>>
    /\ \E k \in 1..Len(last.pre.sheets) :
        \E i \in 1..Len(last.pre.sheets[k].tables) :
            /\ last.pre.sheets[k].tables[i].name = membersTable.tableName
            /\ isOld(last.pre.sheets[k].grid
                        [Val(last.pre.sheets[k].tables[i].range.startRowIndex) + 2]
                        [Val(last.pre.sheets[k].tables[i].range.startColumnIndex) + 1].v)

\* C4 as stated: with an empty record list the old data rows are deleted and
\* the declared rectangle is the header row only (endRow = startRow + 1).
C4_EmptyListShrinksToHeader ==
    (membersRun /\ last.loaded /\ last.records = <<>>) =>
        \A k \in 1..Len(target.sheets) :
            \A i \in 1..Len(target.sheets[k].tables) :
                target.sheets[k].tables[i].name = membersTable.tableName =>
                    Val(target.sheets[k].tables[i].range.endRowIndex)
                        = Val(target.sheets[k].tables[i].range.startRowIndex) + 1

----------------------------------------------------------------------------
(* The address converter *)

allDefined(gr) ==
    /\ gr.startRowIndex # Undefined /\ gr.endRowIndex # Undefined
    /\ gr.startColumnIndex # Undefined /\ gr.endColumnIndex # Undefined

\* a rectangle: all four bounds, endRow > startRow and endCol > startCol
isRectangle(gr) ==
    /\ allDefined(gr)
    /\ Val(gr.endRowIndex) > Val(gr.startRowIndex)
    /\ Val(gr.endColumnIndex) > Val(gr.startColumnIndex)

\* the letters of the first columns and of the columns around the step from
\* one letter to two
knownColumn(zero, letters) ==
    /\ zero = 0 => letters = <<"A">>
    /\ zero = 1 => letters = <<"B">>
    /\ zero = 25 => letters = <<"Z">>
    /\ zero = 26 => letters = <<"A", "A">>
    /\ zero = 27 => letters = <<"A", "B">>

AddressOf(gr, sheetTitle, a) ==
    /\ a.sheet = sheetTitle
    /\ a.sr = Val(gr.startRowIndex) + 1
    /\ a.er = Val(gr.endRowIndex)
    /\ a.sr..a.er = {r + 1 : r \in Val(gr.startRowIndex)..(Val(gr.endRowIndex) - 1)}
    /\ colNumber(a.sc) = Val(gr.startColumnIndex) + 1
    /\ colNumber(a.ec) = Val(gr.endColumnIndex)
    /\ knownColumn(Val(gr.startColumnIndex), a.sc)
    /\ knownColumn(Val(gr.endColumnIndex) - 1, a.ec)

C7_UndefinedBoundRaises ==
    (a1out # <<>> /\ ~allDefined(a1in.gr)) => a1out[1].threw

\* C7, the case: a call with no endRowIndex that returned an address
C7_DefaultedEndRow ==
    /\ a1out # <<>>
    /\ a1in.gr.endRowIndex = Undefined
    /\ a1in.gr.startRowIndex = Def(2)
    /\ ~a1out[1].threw
    /\ a1out[1].value.er = 3

----------------------------------------------------------------------------
(* Header lookups and the table registry *)

historyNames ==
    {estimateHistoryTable.headers.date, estimateHistoryTable.headers.mid,
     estimateHistoryTable.headers.form, estimateHistoryTable.headers.result}
membersNames ==
    {membersTable.headers.displayName, membersTable.headers.email,
     membersTable.headers.responseRequired, membersTable.headers.responseStatus}

\* C8: a header lookup for a name that is in no cell of row 0 of the table
\* throws: idxByName returns no offset, addEstimateHistoryTopRow and
\* updateMembersTable end with the error, and neither makes a call that
\* writes to the spreadsheet.
C8_AbsentHeaderThrows ==
    /\ historyRun =>
        \A meta \in last.meta : \A name \in historyNames :
            ~Present(headerCells(last.preActive, meta), name) =>
                /\ idxByName(headerCells(last.preActive, meta), name)
                       = Throw("header not found")
                /\ last.outcome = "header not found"
                /\ last.calls = <<>>
                /\ active = last.preActive
    /\ membersRun =>
        \A meta \in last.meta : \A name \in membersNames :
            ~Present(headerCells(last.pre, meta), name) =>
                /\ last.outcome \in {"Required headers not found", "Table is empty"}
                /\ last.calls = <<>>
                /\ target = last.pre

\* C8, the case: addEstimateHistoryTopRow on a history table whose header
\* has three of the four names
C8_HistoryHeaderLacksAName ==
    /\ historyRun /\ last.outcome = "header not found"
    /\ \E meta \in last.meta :
        /\ Present(headerCells(last.preActive, meta), estimateHistoryTable.headers.date)
        /\ ~Present(headerCells(last.preActive, meta), estimateHistoryTable.headers.result)

\* the cell of the row at the column whose header cell is the name
placed(h, name, gridRow, startCol, text) ==
    \A j \in 1..Len(h) : h[j] = name => gridRow[startCol + j].v = text

\* C9: a lookup of a name that is the trimmed text of a cell of row 0
\* succeeds, and the offset it returns counts from the first column of the
\* table: what the run writes for the name lands in the sheet column of
\* that header cell.  The comparison is exact: a header cell that differs
\* from the name in case is not a match (C8 covers the throw).
C9_PresentHeaderOffset ==
    /\ membersRun =>
        \A meta \in last.meta :
            (\A name \in membersNames : Present(headerCells(last.pre, meta), name)) =>
                /\ last.outcome \in {"ok", "batchUpdate rejected"}
                /\ \A name \in membersNames :
                    \A j \in 1..Len(headerCells(last.pre, meta)) :
                        headerCells(last.pre, meta)[j] = name =>
                            indexOf(headerCells(last.pre, meta), name) = j - 1
                /\ last.outcome = "ok" =>
                    \A i \in 1..Len(last.records) :
                        /\ placed(headerCells(last.pre, meta),
                                  membersTable.headers.displayName,
                                  gridOf(target, meta.sheetId)
                                      [Val(meta.range.startRowIndex) + 1 + i],
                                  Val(meta.range.startColumnIndex),
                                  last.records[i].displayName)
                        /\ placed(headerCells(last.pre, meta),
                                  membersTable.headers.email,
                                  gridOf(target, meta.sheetId)
                                      [Val(meta.range.startRowIndex) + 1 + i],
                                  Val(meta.range.startColumnIndex),
                                  last.records[i].email)
                        /\ placed(headerCells(last.pre, meta),
                                  membersTable.headers.responseRequired,
                                  gridOf(target, meta.sheetId)
                                      [Val(meta.range.startRowIndex) + 1 + i],
                                  Val(meta.range.startColumnIndex),
                                  last.records[i].responseRequired)
    /\ historyRun =>
        \A meta \in last.meta :
            (\A name \in historyNames : Present(headerCells(last.preActive, meta), name)) =>
                /\ last.outcome \in {"ok", "batchUpdate rejected"}
                /\ last.outcome = "ok" =>
                    \A row \in HistoryRows :
                        /\ placed(headerCells(last.preActive, meta),
                                  estimateHistoryTable.headers.date,
                                  gridOf(active, meta.sheetId)
                                      [Val(meta.range.startRowIndex) + 2],
                                  Val(meta.range.startColumnIndex), row.date)
                        /\ placed(headerCells(last.preActive, meta),
                                  estimateHistoryTable.headers.result,
                                  gridOf(active, meta.sheetId)
                                      [Val(meta.range.startRowIndex) + 2],
                                  Val(meta.range.startColumnIndex), row.resultText)

\* C9, the case: a completed run on a table that starts in the second
\* column of the sheet and whose header cells carry spaces around the names
C9_PaddedHeaderAwayFromColumnA ==
    /\ membersRun /\ last.outcome = "ok"
    /\ \E meta \in last.meta :
        /\ Val(meta.range.startColumnIndex) >= 1
        /\ gridOf(last.pre, meta.sheetId)[Val(meta.range.startRowIndex) + 1]
               [Val(meta.range.startColumnIndex) + 1].v
             = <<" ">> \o membersTable.headers.displayName

\* C10: getTableMetaByName with a name that no table of the spreadsheet
\* carries throws "table not found" and returns no descriptor; so a run of
\* addEstimateHistoryTopRow without its table ends with that error.
C10_UnknownTableThrows ==
    /\ (last.op = "getTableMetaByName" /\ ~Carried(last.preActive, last.arg)) =>
           last.result = Throw("table not found")
    /\ (historyRun /\ ~Carried(last.preActive, estimateHistoryTable.tableName)) =>
           /\ last.outcome = "table not found"
           /\ last.meta = {}
           /\ active = last.preActive

\* C10, the case: the name "DoesNotExist" asked of a spreadsheet with tables
C10_DoesNotExistAsked ==
    /\ last.op = "getTableMetaByName"
    /\ last.arg = "DoesNotExist"
    /\ last.result.threw
    /\ Carried(last.preActive, estimateRequiredMembersTable.tableName)

----------------------------------------------------------------------------
(* Observations on the record loaders *)

\* a loader named fn has run
loaderRun(fn) == arg.fn = fn /\ ret # <<>>

\* the k-th smallest member of the set K of row numbers
nth(K, k) == CHOOSE i \in K : Cardinality({j \in K : j <= i}) = k


\* the trimmed text of cell c of data row i of the table
field(i, c) == trim(arg.rows[i][c])

DataRowNumbers == 1..Len(arg.rows)

\* the last data row with a cell that is not the empty string, 0 if none
lastFilledRow ==
    Max(0, CHOOSE m \in 0..Len(arg.rows) :
               /\ m > 0 => \E c \in 1..3 : arg.rows[m][c] # <<>>
               /\ \A i \in (m + 1)..Len(arg.rows) :
                      \A c \in 1..3 : arg.rows[i][c] = <<>>)

nameOf(i) == field(i, 1)
mailOf(i) == field(i, 2)
memberOf(i) ==
    [displayName |-> field(i, 1), email |-> field(i, 2),
     responseRequired |-> field(i, 3)]
issueOf(i) == [title |-> field(i, 1), url |-> field(i, 2)]
deadlineOf(i) == [dueDate |-> field(i, 1)]

\* what the rows of K give, in row order
namesOf(K) == [k \in 1..Cardinality(K) |-> nameOf(nth(K, k))]
mailsOf(K) == [k \in 1..Cardinality(K) |-> mailOf(nth(K, k))]
membersOf(K) == [k \in 1..Cardinality(K) |-> memberOf(nth(K, k))]
issuesOf(K) == [k \in 1..Cardinality(K) |-> issueOf(nth(K, k))]
deadlinesOfRows(K) == [k \in 1..Cardinality(K) |-> deadlineOf(nth(K, k))]

\* C11 (as stated): every loader returns one record per data row, in row
\* order, and skips exactly the rows whose tracked fields are all empty
\* after trimming.
C11_OneRecordPerNonEmptyRow ==
    /\ loaderRun("getPoGroupMembers") =>
        /\ ~ret[1].threw
        /\ ret[1].value.displayNames =
               namesOf({i \in DataRowNumbers :
                               field(i, 1) # <<>> \/ field(i, 2) # <<>>})
        /\ ret[1].value.emails =
               mailsOf({i \in DataRowNumbers :
                               field(i, 1) # <<>> \/ field(i, 2) # <<>>})
    /\ loaderRun("getEstimateRequiredMembers") =>
        /\ ~ret[1].threw
        /\ ret[1].value =
               membersOf({i \in DataRowNumbers :
                               \E c \in 1..3 : field(i, c) # <<>>})
    /\ loaderRun("getEstimateIssueList") =>
        /\ ~ret[1].threw
        /\ ret[1].value =
               issuesOf({i \in DataRowNumbers :
                               field(i, 1) # <<>> \/ field(i, 2) # <<>>})
    /\ loaderRun("getEstimateDeadlines") =>
        /\ ~ret[1].threw
        /\ ret[1].value =
               deadlinesOfRows({i \in DataRowNumbers : field(i, 1) # <<>>})

\* C11 (amended): each loader keeps row order, and
\*  - getEstimateIssueList returns one record per row whose title or URL is
\*    not empty after trimming;
\*  - getEstimateRequiredMembers returns one record per row whose display
\*    name or mail address is not empty and whose "response required" is one
\*    of its two values;
\*  - getPoGroupMembers returns the non-empty display names and the
\*    non-empty mail addresses as two lists;
\*  - getEstimateDeadlines returns one record per row the backend returned,
\*    that is every row up to the last one with a non-empty cell.
C11_RecordsPerLoader ==
    /\ loaderRun("getPoGroupMembers") =>
        /\ ~ret[1].threw
        /\ ret[1].value.displayNames =
               namesOf({i \in DataRowNumbers : field(i, 1) # <<>>})
        /\ ret[1].value.emails =
               mailsOf({i \in DataRowNumbers : field(i, 2) # <<>>})
    /\ loaderRun("getEstimateRequiredMembers") =>
        /\ ~ret[1].threw
        /\ ret[1].value =
               membersOf({i \in DataRowNumbers :
                               /\ field(i, 1) # <<>> \/ field(i, 2) # <<>>
                               /\ field(i, 3) \in {Unnecessary, Necessary}})
    /\ loaderRun("getEstimateIssueList") =>
        /\ ~ret[1].threw
        /\ ret[1].value =
               issuesOf({i \in DataRowNumbers :
                               field(i, 1) # <<>> \/ field(i, 2) # <<>>})
    /\ loaderRun("getEstimateDeadlines") =>
        /\ ~ret[1].threw
        /\ ret[1].value = deadlinesOfRows(1..lastFilledRow)

\* a row with a name, an address and an unknown "response required" was
\* skipped ahead of a row that was returned
C11_InvalidRowSkipped ==
    /\ loaderRun("getEstimateRequiredMembers")
    /\ arg.rows = <<loadRow("invalid"), loadRow("full")>>
    /\ ~ret[1].threw
    /\ Len(ret[1].value) = 1

----------------------------------------------------------------------------
(* The bulk write of updateMembersTable *)

\* column j of the header h is the column indexOf finds for the name
covers(h, j, name) == h[j] = name /\ \A k \in 1..(j - 1) : h[k] # name

\* the text updateMembersTable is to write in column j of the row of the
\* i-th record
cellWritten(h, j, i, record) ==
    IF covers(h, j, membersTable.headers.displayName) THEN record.displayName
    ELSE IF covers(h, j, membersTable.headers.email) THEN record.email
    ELSE IF covers(h, j, membersTable.headers.responseRequired)
    THEN record.responseRequired
    ELSE IF covers(h, j, membersTable.headers.responseStatus) /\ i = 1
    THEN responseStatusFormula
    ELSE <<>>

\* C12: the Values.update call of updateMembersTable carries one row per
\* record; every row has exactly endCol - startCol cells; a cell under one
\* of the three record headers holds the record's field, the cell under
\* "response status" of the first row holds the formula text as given, and
\* every other cell is the empty string.
C12_WrittenRowsFillTheSpan ==
    membersRun =>
        \A k \in 1..Len(last.calls) : \A meta \in last.meta :
            last.calls[k].op = "Values.update" =>
                /\ Len(last.calls[k].rows) = Len(last.records)
                /\ \A i \in 1..Len(last.calls[k].rows) :
                    /\ Len(last.calls[k].rows[i]) =
                           Val(meta.range.endColumnIndex)
                           - Val(meta.range.startColumnIndex)
                    /\ \A j \in 1..Len(last.calls[k].rows[i]) :
                           last.calls[k].rows[i][j] =
                               cellWritten(headerCells(last.pre, meta), j, i,
                                           last.records[i])

\* C12, the case: two records written to a table of five columns, one of
\* which belongs to no record field
C12_WideTableWritten ==
    /\ membersRun /\ last.outcome = "ok"
    /\ Len(last.records) = 2
    /\ \E meta \in last.meta :
        /\ Val(meta.range.endColumnIndex) - Val(meta.range.startColumnIndex) = 5
        /\ headerCells(last.pre, meta)[2] = <<"note">>
    /\ \E k \in 1..Len(last.calls) :
        /\ last.calls[k].op = "Values.update"
        /\ last.calls[k].rows[1][2] = <<>>
        /\ last.calls[k].rows[1][5] = responseStatusFormula
        /\ last.calls[k].rows[2][5] = <<>>

----------------------------------------------------------------------------
(* The table index across the calls of one execution *)

metaRun == last.op = "getTableMetaByName"

----------------------------------------------------------------------------
(* Two tables of one name *)

\* the places <<sheet, table>> of the tables that carry the name
placesOf(ss, name) ==
    {p \in UNION {{<<k, i>> : i \in 1..Len(ss.sheets[k].tables)} :
                      k \in 1..Len(ss.sheets)} :
        ss.sheets[p[1]].tables[p[2]].name = name}

\* the id of the table of that name that comes last in sheet order and then
\* in table order
lastScannedId(ss, name) ==
    LET p == CHOOSE p \in placesOf(ss, name) :
                 \A q \in placesOf(ss, name) :
                     q[1] < p[1] \/ (q[1] = p[1] /\ q[2] <= p[2])
    IN  ss.sheets[p[1]].tables[p[2]].tableId

\* C14 (as stated): getTableMetaByName, the name scan of
\* updateMembersTable and the lookup of addEstimateHistoryTopRow resolve a
\* name to the table of that name scanned last.
C14_LastScannedWins ==
    /\ (metaRun /\ ~last.result.threw) =>
           last.result.value.tableId = lastScannedId(active, last.arg)
    /\ membersRun =>
           \A meta \in last.meta :
               meta.tableId = lastScannedId(last.pre, membersTable.tableName)
    /\ historyRun =>
           \A meta \in last.meta :
               meta.tableId = lastScannedId(last.preActive,
                                            estimateHistoryTable.tableName)

\* C14, the case: updateMembersTable ran on a spreadsheet with two tables
\* named as the Members table and resolved the one scanned first
C14_FirstMembersResolved ==
    /\ membersRun
    /\ Cardinality(placesOf(last.pre, membersTable.tableName)) = 2
    /\ \E meta \in last.meta :
        /\ meta.tableId = last.pre.sheets[1].tables[1].tableId
        /\ meta.tableId # lastScannedId(last.pre, membersTable.tableName)

----------------------------------------------------------------------------
(* The column encoder *)

colRun == arg.fn = "toColA1" /\ ret # <<>>

\* the value of letters read as digits 1..26 of bijective base 26
RECURSIVE bijective26(_)
bijective26(letters) ==
    IF letters = <<>> THEN 0
    ELSE 26 * bijective26(SubSeq(letters, 1, Len(letters) - 1))
         + (CHOOSE d \in 1..26 : Alphabet[d] = letters[Len(letters)])

\* the encodings the claim names, by 1-based column
namedColumn(column, letters) ==
    /\ column = 1 => letters = <<"A">>
    /\ column = 26 => letters = <<"Z">>
    /\ column = 27 => letters = <<"A", "A">>
    /\ column = 52 => letters = <<"A", "Z">>
    /\ column = 702 => letters = <<"Z", "Z">>

\* C16: toColA1 applied to the zero-based index c returns the bijective
\* base-26 letters of the 1-based column c + 1: columns 1, 26, 27, 52 and
\* 702 give A, Z, AA, AZ and ZZ, the result is never empty, it is made of
\* the letters A..Z, and no other column index has the same result.
C16_BijectiveBase26 ==
    colRun =>
        /\ ret[1] # <<>>
        /\ \A k \in 1..Len(ret[1]) : \E d \in 1..26 : Alphabet[d] = ret[1][k]
        /\ bijective26(ret[1]) = arg.zero + 1
        /\ namedColumn(arg.zero + 1, ret[1])
        /\ \A other \in 0..MaxColumn :
               toColA1(other) = ret[1] => other = arg.zero

\* C16, the case: the last column of two letters was encoded
C16_ColumnZZ ==
    /\ colRun
    /\ arg.zero + 1 = 702
    /\ ret[1] = <<"Z", "Z">>

----------------------------------------------------------------------------
(* A reconciliation that is rejected part way *)

membersRejected == membersRun /\ last.outcome = "batchUpdate rejected"

\* the call the backend rejected: the last one issued
rejectedOp == last.calls[Len(last.calls)].op

\* the data rows a rectangle declares
declaredRows(range) == Val(range.endRowIndex) - Val(range.startRowIndex) - 1

\* the rows the sheet has gained since the call began
rowsGained(sheetId) == Len(gridOf(target, sheetId)) - Len(gridOf(last.pre, sheetId))

\* C17 (as stated): after a rejected step the registered rectangle of the
\* table spans the header and exactly the data rows the table occupies on
\* the sheet: the rows it declared before, plus the rows inserted, minus the
\* rows deleted.
C17_RectangleMatchesCompletedSteps ==
    membersRejected =>
        \A meta \in last.meta :
            /\ rangeNow(target, meta.tableId).startRowIndex = meta.range.startRowIndex
            /\ declaredRows(rangeNow(target, meta.tableId)) =
                   declaredRows(meta.range) + rowsGained(meta.sheetId)

\* C17 (amended): after a rejected step the completed inserts and deletes
\* stay on the sheet, and the registered rectangle changes only if the
\* updateTable step completed: it is header + N when the rejected call was
\* the value write, and the rectangle of before the call otherwise.
C17_RectangleOnlyMovesWithUpdateTable ==
    membersRejected =>
        \A meta \in last.meta :
            /\ rangeNow(target, meta.tableId) =
                   IF rejectedOp = "Values.update"
                   THEN [meta.range EXCEPT !.endRowIndex =
                            Def(Val(meta.range.startRowIndex) + 1 + last.requiredRows)]
                   ELSE meta.range
            /\ rowsGained(meta.sheetId) =
                   (IF rejectedOp # "insertDimension" THEN last.requiredRows ELSE 0)
                   - (IF rejectedOp \notin {"insertDimension", "deleteDimension"}
                      THEN last.currentDataRows ELSE 0)

\* C17, the case: the insert completed and the delete was rejected, and the
\* rectangle declares fewer rows than the table now has on the sheet
C17_DeleteRejectedAfterInsert ==
    /\ membersRejected
    /\ rejectedOp = "deleteDimension"
    /\ Len(last.calls) = 2
    /\ \E meta \in last.meta :
        /\ rowsGained(meta.sheetId) = last.requiredRows
        /\ declaredRows(rangeNow(target, meta.tableId)) <
               declaredRows(meta.range) + rowsGained(meta.sheetId)

----------------------------------------------------------------------------
(* Preconditions of addFormResponsesDummyRow *)

formRun == last.op = "addFormResponsesDummyRow"

\* the first table of the Form_Responses name, as the name scan takes it
firstForm(ss) ==
    LET p == CHOOSE p \in placesOf(ss, formResponsesTable.tableName) :
                 \A q \in placesOf(ss, formResponsesTable.tableName) :
                     p[1] < q[1] \/ (p[1] = q[1] /\ p[2] <= q[2])
    IN  ss.sheets[p[1]].tables[p[2]]

\* the trimmed header cells of the table, zero taken for a bound left out
formHeaderCells(ss, t) ==
    [j \in 1..(Val(t.range.endColumnIndex) - OrElse(t.range.startColumnIndex, 0)) |->
        trim(ss.sheets[1].grid[OrElse(t.range.startRowIndex, 0) + 1]
                              [OrElse(t.range.startColumnIndex, 0) + j].v)]

\* a precondition of addFormResponsesDummyRow fails: no table of the name,
\* a rectangle bound left out, or no "mail address" header
invalidForm(ss) ==
    \/ ~Carried(ss, formResponsesTable.tableName)
    \/ ~allDefined(firstForm(ss).range)
    \/ ~Present(formHeaderCells(ss, firstForm(ss)), formResponsesTable.headers.email)

\* C18 (as stated), for addFormResponsesDummyRow: when the table is not
\* found, is empty, lacks its required header or lacks a rectangle bound,
\* the call raises before any write and leaves the spreadsheet unchanged.
C18_InvalidPreconditionRaisesFirst ==
    (formRun /\ last.outcome # "Invalid spreadsheet URL" /\ invalidForm(last.pre)) =>
        /\ last.outcome \notin {"ok", "batchUpdate rejected"}
        /\ last.calls = <<>>
        /\ target = last.pre

\* C18, the case: the header of the table has no "mail address" column,
\* yet the call wrote a row and updated the rectangle of the table
C18_RowWrittenWithoutAddressHeader ==
    /\ formRun /\ last.outcome = "ok"
    /\ allDefined(firstForm(last.pre).range)
    /\ ~Present(formHeaderCells(last.pre, firstForm(last.pre)),
                formResponsesTable.headers.email)
    /\ Len(last.calls) = 2
    /\ rangeNow(target, "f1") # rangeNow(last.pre, "f1")

----------------------------------------------------------------------------
(* The test runner *)

testsRan == ret # <<>> /\ arg.fn \in {"runTestsCore", "testCore"}

RegisteredNames == {tests[i].name : i \in 1..Len(tests)}

\* the place of a registered name in the registry
placeOf(name) == CHOOSE i \in 1..Len(tests) : tests[i].name = name

\* the names the input selects: the asked names that are registered, or
\* every registered name when no name is asked for
SelectedNames ==
    IF arg.names = Undefined \/ Val(arg.names) = <<>>
    THEN RegisteredNames
    ELSE RegisteredNames \cap {Val(arg.names)[k] : k \in 1..Len(Val(arg.names))}

\* C19: a run of testCore issues no call that changes a spreadsheet (no
\* cell write, no row insert or delete, no rectangle update), leaves both
\* spreadsheets as they were, and the test "estimate_history:addRow" is not
\* among its thirteen tests.
C19_TestCoreWritesNothing ==
    (testsRan /\ last.op = "testCore") =>
        /\ last.calls = <<>>
        /\ active = last.preActive
        /\ target = last.pre
        /\ Len(ret[1].results) = 13
        /\ \A k \in 1..Len(ret[1].results) :
               ret[1].results[k].name # "estimate_history:addRow"

\* C19, the case: testCore ran all its tests and all passed, on a
\* spreadsheet where the history table is there to be written
C19_TestCoreRanAll ==
    /\ testsRan /\ last.op = "testCore"
    /\ Len(ret[1].results) = 13
    /\ \A k \in 1..Len(ret[1].results) : ret[1].results[k].ok
    /\ Carried(active, estimateHistoryTable.tableName)

\* C20: runTestsCore returns one result for each selected registered test
\* and no other, in registry order; a result is ok or carries a message; a
\* test whose table is absent (its check throws) or whose list is empty (its
\* check returns false) is recorded as failed, and the tests after it are
\* run all the same; an asked name that is not registered has no result;
\* the summary has total = number of results and pass + fail = total.
C20_OneResultPerSelectedTest ==
    testsRan =>
        /\ {ret[1].results[k].name : k \in 1..Len(ret[1].results)} = SelectedNames
        /\ Len(ret[1].results) = Cardinality(SelectedNames)
        /\ \A k \in 1..Len(ret[1].results) : \A l \in (k + 1)..Len(ret[1].results) :
               placeOf(ret[1].results[k].name) < placeOf(ret[1].results[l].name)
        /\ \A k \in 1..Len(ret[1].results) :
            /\ ret[1].results[k].ok <=> ret[1].results[k].message = <<>>
            /\ ret[1].results[k].name \in {"sample:true", "sample:sum"} =>
                   ret[1].results[k].ok
            /\ (/\ ret[1].results[k].name = "po_members:nonempty:emails"
                /\ ~Carried(last.preActive, poGroupMembersTable.tableName)) =>
                   /\ ~ret[1].results[k].ok
                   /\ Len(ret[1].results[k].message) = 3
            /\ (/\ ret[1].results[k].name = "estimate_deadline:length1"
                /\ declaredRows(rangeNow(last.preActive, "s6")) # 1) =>
                   /\ ~ret[1].results[k].ok
                   /\ Len(ret[1].results[k].message) = 1
        /\ ret[1].summary.total = Len(ret[1].results)
        /\ ret[1].summary.pass =
               Cardinality({k \in 1..Len(ret[1].results) : ret[1].results[k].ok})
        /\ ret[1].summary.fail =
               Cardinality({k \in 1..Len(ret[1].results) : ~ret[1].results[k].ok})
        /\ ret[1].summary.pass + ret[1].summary.fail = ret[1].summary.total

\* C20, the case: of four asked names one is not registered and one is
\* repeated; the first selected test threw, the test after it ran and passed
C20_ThrowDoesNotStopTheRest ==
    /\ testsRan
    /\ arg.names = Def(<<"estimate_deadline:length1", "nope",
                         "po_members:nonempty:emails", "estimate_deadline:length1">>)
    /\ Len(ret[1].results) = 2
    /\ ret[1].results[1].name = "po_members:nonempty:emails"
    /\ ~ret[1].results[1].ok /\ Len(ret[1].results[1].message) = 3
    /\ ret[1].results[2].name = "estimate_deadline:length1"
    /\ ret[1].results[2].ok
    /\ ret[1].unknown = <<"nope">>
    /\ ret[1].summary = [total |-> 2, pass |-> 1, fail |-> 1]

----------------------------------------------------------------------------
(* The row added to the history table *)

\* the cell addEstimateHistoryTopRow leaves under the header cell `name`
historyCell(name, row) ==
    LET h == estimateHistoryTable.headers
    IN  CASE name = h.date -> [v |-> row.date, uri |-> ""]
          [] name = h.mid -> [v |-> row.midText, uri |-> row.midUrl]
          [] name = h.form -> [v |-> row.formText, uri |-> row.formUrl]
          [] name = h.result -> [v |-> row.resultText, uri |-> row.resultUrl]
          [] OTHER -> BlankCell

inColumns(meta, c) ==
    c > Val(meta.range.startColumnIndex) /\ c <= Val(meta.range.endColumnIndex)

TopRowAdded(meta, h, preGrid, postGrid) ==
    /\ \A r \in 1..(Val(meta.range.startRowIndex) + 1) : postGrid[r] = preGrid[r]
    /\ \E row \in HistoryRows :
        \A j \in 1..Len(h) :
            postGrid[Val(meta.range.startRowIndex) + 2]
                    [Val(meta.range.startColumnIndex) + j] = historyCell(h[j], row)
    /\ \A r \in (Val(meta.range.startRowIndex) + 2)..Val(meta.range.endRowIndex) :
        \A c \in 1..SheetCols :
            inColumns(meta, c) => postGrid[r + 1][c] = preGrid[r][c]
    /\ \A r \in 1..Len(postGrid) : \A c \in 1..SheetCols :
        ~inColumns(meta, c) =>
            postGrid[r][c] = IF r <= Len(preGrid) THEN preGrid[r][c] ELSE BlankCell

\* C21: a completed addEstimateHistoryTopRow issued the insertion of one row
\* of cells in the table's columns before its writes; afterwards the row
\* directly below the header holds the new values, every data row the table
\* had before is one row lower in its original order, and every cell outside
\* the table's columns is where it was with the content it had.
C21_TopRowInsertedInColumns ==
    (historyRun /\ last.outcome = "ok") =>
        /\ [i \in 1..Len(last.calls) |-> last.calls[i].op]
               = <<"insertRange", "Values.update", "updateCells">>
        /\ \A meta \in last.meta :
            /\ last.calls[1].start = Val(meta.range.startRowIndex) + 1
            /\ last.calls[1].end = last.calls[1].start + 1
            /\ last.calls[1].startCol = Val(meta.range.startColumnIndex)
            /\ last.calls[1].endCol = Val(meta.range.endColumnIndex)
            /\ TopRowAdded(meta, headerCells(last.preActive, meta),
                           gridOf(last.preActive, meta.sheetId),
                           gridOf(active, meta.sheetId))

\* C21, the case: a row added to a table that held two old rows, under a
\* header whose columns are not in the order of the row's fields, with text
\* in the cells beside the table
C21_RowAddedBesideText ==
    /\ historyRun /\ last.outcome = "ok"
    /\ \E meta \in last.meta :
        /\ Val(meta.range.endRowIndex) - Val(meta.range.startRowIndex) >= 3
        /\ headerCells(last.preActive, meta)[1] # estimateHistoryTable.headers.date
        /\ \E c \in 1..SheetCols :
            /\ ~inColumns(meta, c)
            /\ gridOf(last.preActive, meta.sheetId)
                   [Val(meta.range.startRowIndex) + 2][c] # BlankCell

----------------------------------------------------------------------------
(* The order of the calls of one reconciliation *)

\* the operations of a reconciliation to N rows of a table of C rows read
stepsOf(N, C) ==
    (IF N > 0 THEN <<"insertDimension">> ELSE <<>>)
    \o (IF C > 0 THEN <<"deleteDimension">> ELSE <<>>)
    \o <<"updateTable", "Values.update">>

opsOf(calls) == [i \in 1..Len(calls) |-> calls[i].op]

\* whether the call names the rows [start, end) of the sheet
namesRows(call, start, end) == call.start = start /\ call.end = end

StepsInOrder(meta, calls, N, C, preGrid) ==
    /\ opsOf(calls) = SubSeq(stepsOf(N, C), 1, Len(calls))
    /\ \A i \in 1..Len(calls) :
        /\ calls[i].op = "insertDimension" =>
               namesRows(calls[i], Val(meta.range.startRowIndex) + 1,
                         Val(meta.range.startRowIndex) + 1 + N)
        /\ calls[i].op = "deleteDimension" =>
            /\ namesRows(calls[i], Val(meta.range.startRowIndex) + 1 + N,
                         Val(meta.range.startRowIndex) + 1 + N + C)
            /\ \A k \in 1..C :
                   Apply(last.pre, calls[1]).sheets[sheetIndexById(last.pre, meta.sheetId)]
                       .grid[calls[i].start + k]
                   = preGrid[Val(meta.range.startRowIndex) + 1 + k]
        /\ calls[i].op = "updateTable" =>
               calls[i].range =
                   {[meta.range EXCEPT !.endRowIndex =
                        Def(Val(meta.range.startRowIndex) + 1 + N)]}

\* C22: the calls of one run of updateMembersTable that change the sheet are,
\* in this order, the insert of N rows at dataStartRow = startRow + 1 (N > 0),
\* the delete of exactly C rows from dataStartRow + N (C > 0), which are the
\* old data rows moved down by the insert, the rectangle update and the value
\* write; a run that is rejected has issued a prefix of them.
C22_InsertDeleteRectangleWrite ==
    (membersRun /\ last.calls # <<>>) =>
        /\ last.outcome = "ok" =>
               Len(last.calls) = Len(stepsOf(last.requiredRows, last.currentDataRows))
        /\ \A meta \in last.meta :
            StepsInOrder(meta, last.calls, last.requiredRows, last.currentDataRows,
                         gridOf(last.pre, meta.sheetId))

\* C22, the case: a completed run with N > 0 records on a table of C > 0
\* rows, N and C different
C22_AllFourStepsRun ==
    /\ membersRun /\ last.outcome = "ok"
    /\ last.requiredRows > 0 /\ last.currentDataRows > 0
    /\ last.requiredRows # last.currentDataRows
    /\ Len(last.calls) = 4

----------------------------------------------------------------------------
(* The sheet between the calls of one reconciliation *)

RECURSIVE applied(_, _)
\* the spreadsheet after the backend carried out the calls, in order
applied(ss, calls) ==
    IF calls = <<>> THEN ss ELSE applied(Apply(ss, Head(calls)), Tail(calls))

\* the number of calls of the last run the backend carried out
carriedOut == IF last.outcome = "ok" THEN Len(last.calls) ELSE Len(last.calls) - 1

\* the spreadsheet between call k and call k + 1 of the last run on the target
between(k) == applied(last.pre, SubSeq(last.calls, 1, k))

\* the rows that followed the table before the run are the last rows of grid
followsKept(meta, preGrid, grid) ==
    /\ Len(grid) >= Len(preGrid) - Val(meta.range.endRowIndex)
    /\ SubSeq(grid, Len(grid) - (Len(preGrid) - Val(meta.range.endRowIndex)) + 1,
              Len(grid))
         = SubSeq(preGrid, Val(meta.range.endRowIndex) + 1, Len(preGrid))

\* the number of rows of grid between the header row of the table and the
\* rows that followed the table before the run
rowsBelowHeader(meta, preGrid, grid) ==
    Len(grid) - (Len(preGrid) - Val(meta.range.endRowIndex))
    - (Val(meta.range.startRowIndex) + 1)

\* C23: in a run of updateMembersTable with N > 0 records on a table of
\* C > 0 rows read, before the first call, between any two calls and after
\* the last one there are at least min(C, N) rows between the header row and
\* the rows that followed the table; the header row is where it was.
C23_NeverEmptyBetweenCalls ==
    (membersRun /\ last.calls # <<>>
     /\ last.requiredRows > 0 /\ last.currentDataRows > 0) =>
        /\ between(carriedOut) = target
        /\ \A meta \in last.meta : \A k \in 0..carriedOut :
            /\ followsKept(meta, gridOf(last.pre, meta.sheetId),
                           gridOf(between(k), meta.sheetId))
            /\ gridOf(between(k), meta.sheetId)[Val(meta.range.startRowIndex) + 1]
                 = gridOf(last.pre, meta.sheetId)[Val(meta.range.startRowIndex) + 1]
            /\ rowsBelowHeader(meta, gridOf(last.pre, meta.sheetId),
                               gridOf(between(k), meta.sheetId))
                 >= Min(last.currentDataRows, last.requiredRows)

\* C23, the case: a completed run that replaced two old rows by one record,
\* with another table below
C23_TwoOldRowsReplacedByOne ==
    /\ membersRun /\ last.outcome = "ok"
    /\ last.requiredRows = 1 /\ last.currentDataRows = 2
    /\ \E meta \in last.meta : Len(tablesOf(last.pre, meta.sheetId)) = 2

----------------------------------------------------------------------------
(* The sheet after a rejected delete *)

\* the last call of the last run was the delete of the old rows: the run
\* ended there
stoppedAtDelete ==
    /\ membersRun /\ last.calls # <<>>
    /\ last.calls[Len(last.calls)].op = "deleteDimension"

PostInsertPreDelete(meta, N, preGrid, postGrid) ==
    /\ Len(postGrid) = Len(preGrid) + N
    /\ \A r \in 1..(Val(meta.range.startRowIndex) + 1) : postGrid[r] = preGrid[r]
    /\ \A r \in (Val(meta.range.startRowIndex) + 2)
                ..(Val(meta.range.startRowIndex) + 1 + N) : postGrid[r] = BlankRow
    /\ \A r \in (Val(meta.range.startRowIndex) + 2)..Len(preGrid) :
        postGrid[r + N] = preGrid[r]

\* C24: when the delete of updateMembersTable is rejected after its insert
\* was carried out, the run ends with the error, the insert is the only call
\* made before it and none is made after it, and the sheet has the N blank
\* rows directly below the header followed by the old data rows and all that
\* was below them; the declared rectangle of the table is the one of before.
C24_StaysPostInsertPreDelete ==
    stoppedAtDelete =>
        /\ last.outcome = "batchUpdate rejected"
        /\ opsOf(last.calls) = <<"insertDimension", "deleteDimension">>
        /\ \A meta \in last.meta :
            /\ PostInsertPreDelete(meta, last.requiredRows,
                                   gridOf(last.pre, meta.sheetId),
                                   gridOf(target, meta.sheetId))
            /\ rangeNow(target, meta.tableId) = meta.range

\* C24, the case: the delete rejected in a run with two records on a table
\* that held an old row
C24_DeleteRejectedWithTwoRecords ==
    /\ stoppedAtDelete
    /\ last.requiredRows = 2
    /\ \E meta \in last.meta :
        isOld(gridOf(last.pre, meta.sheetId)[Val(meta.range.startRowIndex) + 2]
                                            [Val(meta.range.startColumnIndex) + 1].v)

----------------------------------------------------------------------------
(* A reconciliation run again after it stopped between insert and delete *)

\* the last run was a completed run of updateMembersTable directly after a
\* run that stopped at its delete
retried == membersRun /\ last.afterStopped /\ last.outcome = "ok"

InsertedTwice(meta, N, C2, preGrid, postGrid) ==
    /\ \A r \in (Val(meta.range.startRowIndex) + 2)
                ..(Val(meta.range.startRowIndex) + 1 + N) : preGrid[r] = BlankRow
    /\ last.calls[1].op = "insertDimension"
    /\ namesRows(last.calls[1], Val(meta.range.startRowIndex) + 1,
                 Val(meta.range.startRowIndex) + 1 + N)
    /\ Len(postGrid) = Len(preGrid) + N - C2
    /\ SubSeq(postGrid,
              Len(postGrid) - (Len(preGrid) - (Val(meta.range.endRowIndex) + N)) + 1,
              Len(postGrid))
         = SubSeq(preGrid, Val(meta.range.endRowIndex) + N + 1, Len(preGrid))
    /\ Len(postGrid) - (Len(preGrid) - (Val(meta.range.endRowIndex) + N))
       - (Val(meta.range.startRowIndex) + 1) >= 2 * N

\* C25: when updateMembersTable is run again from the start after a run with
\* the same N records stopped between its insert and its delete, the N blank
\* rows of the first run are still below the header, the second run inserts
\* N rows at the same place again, and the sheet ends with at least 2N rows
\* between the header and the rows that followed the table, while the
\* rectangle declares N.
C25_RetryInsertsAgain ==
    retried =>
        \A meta \in last.meta :
            /\ InsertedTwice(meta, last.requiredRows, last.currentDataRows,
                             gridOf(last.pre, meta.sheetId),
                             gridOf(target, meta.sheetId))
            /\ declaredRows(rangeNow(target, meta.tableId)) = last.requiredRows

\* C25, the case: the second run read old rows in the unchanged rectangle
\* and deleted as many rows
C25_RetryOverOldRows ==
    /\ retried
    /\ last.currentDataRows >= 1
    /\ Len(last.calls) = 4

----------------------------------------------------------------------------
(* C26 *)

createRun == last.op = "createEstimateFromTemplates"

\* the table an operation of createEstimateFromTemplates works on
tableOfStep(op) ==
    CASE op = "addFormResponsesDummyRow" -> formResponsesTable.tableName
      [] op = "updateMembersTable" -> membersTable.tableName
      [] op = "updateResultSummaryTable" -> resultSummaryTable.tableName
      [] OTHER -> estimateHistoryTable.tableName

\* the descriptor of the table in a listing of ss, as the operation scans it
listedFor(op, ss) ==
    IF op = "addEstimateHistoryTopRow"
    THEN (IF getTableMetaByName(ss, tableOfStep(op)).threw THEN {}
          ELSE {getTableMetaByName(ss, tableOfStep(op)).value})
    ELSE findTableByName(ss.sheets, tableOfStep(op))

\* the spreadsheet the k-th operation of the run is called on, as the
\* operations before it left it
leftForStep(k) ==
    IF ret[k].op = "addEstimateHistoryTopRow"
    THEN leftBy(SubSeq(ret, 1, k - 1), TRUE, last.preActive)
    ELSE leftBy(SubSeq(ret, 1, k - 1), FALSE, last.pre)

\* whether the calls of a step name the rows and the table of the descriptor
madeFrom(meta, calls) ==
    \A i \in 1..Len(calls) :
        /\ calls[i].sheetId = meta.sheetId
        /\ calls[i].op \in {"insertDimension", "insertRange"}
               => calls[i].start = OrElse(meta.range.startRowIndex, 0) + 1
        /\ calls[i].op = "updateTable"
               => /\ calls[i].tableId = meta.tableId
                  /\ calls[i].start = OrElse(meta.range.startRowIndex, 0)
        /\ calls[i].op \in {"Values.update", "updateCells"}
               => calls[i].start = OrElse(meta.range.startRowIndex, 0) + 1

\* whether the header row of the summary table, where the listing of ss has
\* the table, is followed by the row of the first issue
summaryBelowItsHeader(ss) ==
    /\ findTableByName(ss.sheets, resultSummaryTable.tableName) # {}
    /\ LET meta == Val(findTableByName(ss.sheets, resultSummaryTable.tableName))
       IN  /\ cellText(gridOf(ss, meta.sheetId), Val(meta.range.startRowIndex) + 1,
                       Val(meta.range.startColumnIndex) + 1)
                  = resultSummaryTable.headers.id
           /\ cellText(gridOf(ss, meta.sheetId), Val(meta.range.startRowIndex) + 2,
                       Val(meta.range.startColumnIndex) + 1)
                  = <<"E", "1">>

\* C26: in a run of createEstimateFromTemplates every operation that
\* changes a spreadsheet (addFormResponsesDummyRow, updateMembersTable,
\* updateResultSummaryTable, addEstimateHistoryTopRow) is called on the
\* spreadsheet as the operations before it left it, the table descriptor it
\* works with is the one a listing of that spreadsheet gives, it makes no
\* changing call without a descriptor, and each of its changing calls names
\* the sheet, the table and the rows of that descriptor; a summary update
\* that completes leaves the row of the first issue directly below the
\* header of the summary table.
C26_DescriptorFromOwnListing ==
    createRun =>
        \A k \in 1..Len(ret) :
            /\ ret[k].pre = leftForStep(k)
            /\ ret[k].ran.meta # {}
                   => ret[k].ran.meta = listedFor(ret[k].op, ret[k].pre)
            /\ ret[k].ran.calls # <<>>
                   => /\ ret[k].ran.meta # {}
                      /\ madeFrom(Val(ret[k].ran.meta), ret[k].ran.calls)
            /\ (ret[k].op = "updateResultSummaryTable" /\ ret[k].ran.outcome = "ok")
                   => summaryBelowItsHeader(ret[k].ran.ss)

\* a complete run in which updateMembersTable moved the summary table, so
\* that the descriptor of the summary update differs from the one a listing
\* before the run gave
C26_SummaryMovedBeforeItsListing ==
    /\ createRun
    /\ Len(ret) = 4
    /\ \A k \in 1..4 : ret[k].ran.outcome = "ok"
    /\ ret[3].ran.meta # findTableByName(last.pre.sheets, resultSummaryTable.tableName)
    /\ ret[3].ran.calls # <<>>
    /\ ret[4].ran.calls # <<>>

----------------------------------------------------------------------------
(* C27 *)

headerRun == last.op = "getTableHeaderInfo"

\* the names a header is asked for
askedHeaders ==
    {membersTable.headers.displayName, membersTable.headers.email,
     estimateHistoryTable.headers.date, estimateHistoryTable.headers.form,
     estimateIssueListTable.headers.title, resultSummaryTable.headers.id,
     formResponsesTable.headers.timestamp, <<"no such header">>}

\* whether two results of getTableHeaderInfo give the same header names and
\* the same offset, or the same failure, for every name
sameHeader(a, b) ==
    /\ ~a.threw
    /\ ~b.threw
    /\ a.value.headerVals = b.value.headerVals
    /\ \A name \in askedHeaders :
           idxByName(a.value.headerVals, name) = idxByName(b.value.headerVals, name)

\* C27: for every table, getTableHeaderInfo called with the rows read from
\* the range of the table returns the same header names and the same
\* name-to-offset lookup as the call without rows, and with the rows it
\* makes no read.
C27_PrefetchedIsPureOptimization ==
    headerRun =>
        /\ sameHeader(ret[1].prefetched, ret[1].unfetched)
        /\ ret[1].prefetched.value.reads = 0

\* the call without rows for the Members table of the intermediate
\* spreadsheet: the header row is asked of the active spreadsheet, which
\* has no sheet of that title, while the call with rows gives the header
C27_MidTableAskedOfActive ==
    /\ headerRun
    /\ arg.on = "mid"
    /\ arg.tableName = membersTable.tableName
    /\ ~ret[1].prefetched.threw
    /\ ret[1].prefetched.value.reads = 0
    /\ ret[1].prefetched.value.headerVals = membersHeader("std")
    /\ ret[1].unfetched.threw

\* the same for the tables of the active spreadsheet only
C27_SameForActiveTables ==
    (headerRun /\ arg.on = "active") =>
        /\ sameHeader(ret[1].prefetched, ret[1].unfetched)
        /\ ret[1].prefetched.value.reads = 0
        /\ ret[1].unfetched.value.reads = 1

----------------------------------------------------------------------------
(* C28 *)

cachedLoaders ==
    {"getEstimateTemplateLinks", "getPoGroupMembers", "getEstimateRequiredMembers",
     "getEstimateIssueList", "getEstimateDeadlines"}

cacheRun == last.op \in cachedLoaders /\ ret # <<>>

\* the cache variable of a loader
cacheOf(fn) ==
    CASE fn = "getEstimateTemplateLinks" -> _estimateTemplateCache
      [] fn = "getPoGroupMembers" -> _poMembersCache
      [] fn = "getEstimateRequiredMembers" -> _estimateRequiredMembersCache
      [] fn = "getEstimateIssueList" -> _estimateIssueListCache
      [] OTHER -> _estimateDeadlineCache

\* what the loader would load from the sheet as it is now
loadedNow(fn) ==
    CASE fn = "getEstimateTemplateLinks" -> getEstimateTemplateLinks(active)
      [] fn = "getPoGroupMembers" -> getPoGroupMembers(active)
      [] fn = "getEstimateRequiredMembers" -> loadEstimateRequiredMembers(active)
      [] fn = "getEstimateIssueList" -> getEstimateIssueList(active)
      [] OTHER -> getEstimateDeadlines(active)

\* C28: a call of a loader whose cache is set returns the cached value,
\* makes no table listing and no cell read and leaves the cache as it is,
\* whatever the sheet holds by then; a call whose cache is unset lists the
\* tables, and it sets the cache to what it returns when it returns and
\* leaves it unset when it throws.
C28_CachesWriteOnce ==
    cacheRun =>
        /\ cacheOf(ret[1].fn) = ret[1].after
        /\ ret[1].before # {}
               => /\ ret[1].result = Ok(Val(ret[1].before))
                  /\ ret[1].listings = 0
                  /\ ret[1].reads = 0
                  /\ ret[1].after = ret[1].before
        /\ ret[1].before = {}
               => /\ ret[1].listings = 1
                  /\ ret[1].reads <= 1
                  /\ ret[1].result.threw => ret[1].after = {}
                  /\ ~ret[1].result.threw
                         => /\ ret[1].after = {ret[1].result.value}
                            /\ ret[1].reads = 1

\* a call answered from the cache after the sheet was edited: a fresh load
\* would return another value
C28_CachedAfterEdit ==
    /\ cacheRun
    /\ adds > 0
    /\ ret[1].before # {}
    /\ ~loadedNow(ret[1].fn).threw
    /\ loadedNow(ret[1].fn).value # ret[1].result.value

\* a load that threw: the cache is unset and the sheet is read again
C28_ThrewAndUnset ==
    /\ cacheRun
    /\ ret[1].result.threw
    /\ ret[1].listings = 1
    /\ ret[1].reads = 1
    /\ cacheOf(ret[1].fn) = {}

----------------------------------------------------------------------------
(* C29 *)

\* the header addFormResponsesDummyRow read before the run
formHeaderRead(meta) == headerOf(tableValues(last.pre, meta))

\* the state a run of addFormResponsesDummyRow that succeeded leaves: the
\* rectangle, the row below the header and the other rows of the sheet
DummyRowAdded(meta, header, preGrid, postGrid, postRange) ==
    /\ postRange.endRowIndex = Def(OrElse(meta.range.startRowIndex, 0) + 2)
    /\ postRange.startRowIndex = meta.range.startRowIndex
    /\ postRange.startColumnIndex = meta.range.startColumnIndex
    /\ postRange.endColumnIndex = meta.range.endColumnIndex
    /\ Len(postGrid) = Len(preGrid)
    /\ \A r \in 1..Len(preGrid) :
           r # OrElse(meta.range.startRowIndex, 0) + 2 => postGrid[r] = preGrid[r]
    /\ \A c \in 1..SheetCols :
           LET j == c - OrElse(meta.range.startColumnIndex, 0)
               below == OrElse(meta.range.startRowIndex, 0) + 2
           IN  IF j \in 1..Len(header)
               THEN postGrid[below][c].v = dummyRowData(header)[j]
               ELSE postGrid[below][c] = preGrid[below][c]

\* C29: after addFormResponsesDummyRow succeeded, whatever the number of
\* answer rows before, the rectangle of the table ends two rows below its
\* start (header row and dummy row) with its start row and both column
\* bounds as before, the row directly below the header holds the dummy
\* values ("dummy" under the mail address header, empty under the other
\* headers), and the sheet has the rows it had, every other row unchanged.
C29_RectangleIsHeaderAndDummyRow ==
    (formRun /\ last.outcome = "ok") =>
        DummyRowAdded(Val(last.meta), formHeaderRead(Val(last.meta)),
                      gridOf(last.pre, Val(last.meta).sheetId),
                      gridOf(target, Val(last.meta).sheetId),
                      rangeNow(target, Val(last.meta).tableId))

\* a run on a table of two answer rows: the rectangle shrinks to the header
\* and the row with "dummy"
C29_TwoAnswersBefore ==
    /\ formRun
    /\ last.outcome = "ok"
    /\ last.currentDataRows = 2
    /\ Val(rangeNow(last.pre, "f1").endRowIndex)
           = OrElse(rangeNow(last.pre, "f1").startRowIndex, 0) + 3
    /\ Val(rangeNow(target, "f1").endRowIndex)
           = OrElse(rangeNow(target, "f1").startRowIndex, 0) + 2
    /\ \E c \in 1..SheetCols :
           gridOf(target, 9)[OrElse(rangeNow(target, "f1").startRowIndex, 0) + 2][c].v
               = <<"dummy">>

----------------------------------------------------------------------------
(* C30 *)

richTextRun == last.op = "richTextToCell"

\* the runs of the cell made, none when textFormatRuns is not set
runsMade == IF ret[1].textFormatRuns = Undefined THEN <<>>
            ELSE Val(ret[1].textFormatRuns)

\* the index in the joined text of the first character of the k-th element
RECURSIVE offsetOf(_, _)
offsetOf(elements, k) ==
    IF k = 1 THEN 0
    ELSE offsetOf(elements, k - 1) + Len(elements[k - 1].text)

\* the runs that cover the character at index p: those that start at or
\* before p with no run starting after them at or before p
coveringRuns(runs, p) ==
    {i \in 1..Len(runs) :
        /\ runs[i].startIndex <= p
        /\ \A j \in 1..Len(runs) :
               runs[j].startIndex <= p => runs[j].startIndex <= runs[i].startIndex}

\* whether the characters of the k-th element are formatted as the element says
coveredAsPart(runs, elements, k) ==
    \A p \in offsetOf(elements, k)..(offsetOf(elements, k) + Len(elements[k].text) - 1) :
        IF elements[k].type = "link"
        THEN /\ coveringRuns(runs, p) # {}
             /\ \A i \in coveringRuns(runs, p) :
                    runs[i].format = Def([link |-> [uri |-> elements[k].url]])
        ELSE \A i \in coveringRuns(runs, p) : runs[i].format = Undefined

\* C30: for every RichText the textFormatRuns richTextToCell emits have
\* strictly increasing startIndex values, each smaller than the length of
\* the joined text, every character of a link element is covered by a run
\* with the url of the element and no character of a plain element is
\* covered by a run with a link.
C30_RunsStrictlyIncreasing ==
    richTextRun =>
        /\ \A i \in 1..(Len(runsMade) - 1) :
               runsMade[i].startIndex < runsMade[i + 1].startIndex
        /\ \A i \in 1..Len(runsMade) :
               runsMade[i].startIndex < Len(ret[1].userEnteredValue.stringValue)
        /\ \A k \in 1..Len(arg.elements) :
               coveredAsPart(runsMade, arg.elements, k)

\* a link element directly followed by another link element, both with text
C30_AdjacentLinks ==
    /\ richTextRun
    /\ \E k \in 1..(Len(arg.elements) - 1) :
           /\ arg.elements[k].type = "link"
           /\ arg.elements[k + 1].type = "link"
           /\ arg.elements[k].text # <<>>
           /\ arg.elements[k + 1].text # <<>>
           /\ arg.elements[k].url # arg.elements[k + 1].url

\* whether a link with text is followed, after elements without text only,
\* by another link with text
linkMeetsLink(elements) ==
    \E k \in 1..Len(elements), m \in 1..Len(elements) :
        /\ k < m
        /\ elements[k].type = "link" /\ elements[k].text # <<>>
        /\ elements[m].type = "link" /\ elements[m].text # <<>>
        /\ \A j \in (k + 1)..(m - 1) : elements[j].text = <<>>

\* where no link with text meets another one the runs are strictly
\* increasing, below the length of the text, and cover the characters as
\* the elements say
C30_HoldsWhereLinksAreApart ==
    (richTextRun /\ ~linkMeetsLink(arg.elements)) =>
        /\ \A i \in 1..(Len(runsMade) - 1) :
               runsMade[i].startIndex < runsMade[i + 1].startIndex
        /\ \A i \in 1..Len(runsMade) :
               runsMade[i].startIndex < Len(ret[1].userEnteredValue.stringValue)
        /\ \A k \in 1..Len(arg.elements) :
               coveredAsPart(runsMade, arg.elements, k)

====
